---- MODULE Spec2Model ----
(***************************************************************************)
(* Batch task-orchestration engine of google_flights_scraper               *)
(* (src/src/google_flights_scraper/batch_scraper.py): _run_tasks,          *)
(* _run_sequential, _run_concurrent, _scrape_task_with_timeout,            *)
(* _scrape_task and _flatten_result, run against a collaborator            *)
(* (GoogleFlightsScraper.scrape_flight) whose outcome is chosen            *)
(* nondeterministically per attempt.                                       *)
(*                                                                         *)
(* Python values: every dict value is an optional; None is <<>> and a      *)
(* present value x is <<x>>.  Durations of the sequential pacing sleep     *)
(* are in tenths of a second; task_timeout is in seconds.                  *)
(***************************************************************************)
EXTENDS Integers, Sequences, FiniteSets, TLC

\* ---------------------------------------------------------------- bounds
MaxTasks == 3
MaxJobs == 2
MaxCalls == 2

\* ------------------------------------------------------- program constants
DEFAULT_TASK_TIMEOUT == 120
DEFAULT_DELAY_SECONDS == 30
DEFAULT_DELAY_JITTER == 5

TimeoutValues == {1, DEFAULT_TASK_TIMEOUT}
DelayValues == {0, 2, 20}
JitterDraws(jitter) == {-jitter, 0, jitter}

\* ------------------------------------------------------------ Python values
None == <<>>
Some(x) == <<x>>

Get(d, k) == IF k \in DOMAIN d THEN d[k] ELSE None

\* str.__contains__ : m occurs in s as a contiguous substring
Contains(s, m) ==
    \E k \in 1..(Len(s) - Len(m) + 1) : SubSeq(s, k, k + Len(m) - 1) = m

\* ------------------------------------------------------------------- tasks
MkTask(i) ==
    [departure_code    |-> Some("LAX"),
     departure_country |-> Some("USA"),
     arrival_code      |-> Some("A" \o ToString(i)),
     arrival_country   |-> Some("USA"),
     start_date        |-> Some("01/0" \o ToString(i) \o "/2027"),
     end_date          |-> Some("02/0" \o ToString(i) \o "/2027"),
     seat_class        |-> Some("Economy")]

\* a task carrying the optional "time" entry (task.get("time"))
MkTimedTask(i) ==
    [k \in (DOMAIN MkTask(i)) \cup {"time"} |->
        IF k = "time" THEN Some(7 * i) ELSE MkTask(i)[k]]

\* ------------------------------------------------------------ collaborator
\* What one call of GoogleFlightsScraper.scrape_flight(**task) can do.
ReturnKinds == {"success", "transient_date", "transient_price"}
\* returns of a collaborator that does not set a status: the value is None,
\* or the key is not there
MalformedKinds == {"status_none", "status_missing"}
RaiseKinds == {"captcha", "other"}

StatusOf(kind) ==
    CASE kind = "success"         -> "Ran successfully."
      [] kind = "transient_date"  -> "Error: Error entering departure date:"
      [] kind = "transient_price" -> "Error: Price not found"

\* the kinds whose status carries one of the known-transient texts
IsTransientKind(kind) == kind \in {"transient_date", "transient_price"}

ExceptionMessage == "Network error"

_create_result_structure(task) ==
    [inputs |-> [departure_airport |-> task.departure_code,
                 departure_country |-> task.departure_country,
                 arrival_airport   |-> task.arrival_code,
                 arrival_country   |-> task.arrival_country,
                 departure_date    |-> task.start_date,
                 return_date       |-> task.end_date,
                 seat_class        |-> task.seat_class],
     departure_flight |-> [airline |-> None, connection_airports |-> Some(<<>>)],
     return_flight    |-> [airline |-> None, connection_airports |-> Some(<<>>)],
     price |-> None,
     price_classification |-> None,
     price_difference |-> None,
     price_relativity |-> None,
     status |-> None,
     url |-> None]

\* The dict a returning scrape_flight hands back.
ScrapeResult(task, kind) ==
    IF kind = "success"
    THEN [_create_result_structure(task) EXCEPT
            !.departure_flight = [airline |-> Some("United"),
                                  connection_airports |-> Some(<<"DFW", "ORD">>)],
            !.return_flight = [airline |-> Some("Delta"),
                               connection_airports |-> Some(<<>>)],
            !.price = Some(200),
            !.price_classification = Some("low"),
            !.price_difference = Some(50),
            !.price_relativity = Some(2000),
            !.status = Some(StatusOf(kind)),
            !.url = Some("https://www.google.com/travel/flights/booking")]
    ELSE IF kind = "status_none"
    THEN _create_result_structure(task)
    ELSE IF kind = "status_missing"
    THEN [k \in (DOMAIN _create_result_structure(task)) \ {"status"} |->
             _create_result_structure(task)[k]]
    ELSE [_create_result_structure(task) EXCEPT !.status = Some(StatusOf(kind))]

\* --------------------------------------------------------- _flatten_result
EmptyDict == [k \in {} |-> None]

Update(f, g) == [k \in (DOMAIN f) \cup (DOMAIN g) |-> IF k \in DOMAIN g THEN g[k] ELSE f[k]]

PrefixedBehind(prefix, d) ==
    [k \in {x \o prefix : x \in DOMAIN d} |->
        d[CHOOSE x \in DOMAIN d : x \o prefix = k]]

Prefixed(prefix, d) ==
    [k \in {prefix \o x : x \in DOMAIN d} |->
        d[CHOOSE x \in DOMAIN d : prefix \o x = k]]

Section(result, name) == IF name \in DOMAIN result THEN result[name] ELSE EmptyDict

_flatten_result_present_only(result) ==
    LET flat1 == Section(result, "inputs")
        flat2 == Update(flat1, Prefixed("departure_", Section(result, "departure_flight")))
        flat3 == Update(flat2, Prefixed("return_", Section(result, "return_flight")))
        top   == {"price", "price_classification", "price_difference",
                  "price_relativity", "status", "url", "time"}
    IN  Update(flat3, [k \in top \cap DOMAIN result |-> result[k]])

_flatten_result(result) ==
    LET flat1 == Section(result, "inputs")
        flat2 == Update(flat1, Prefixed("departure_", Section(result, "departure_flight")))
        flat3 == Update(flat2, Prefixed("return_", Section(result, "return_flight")))
    IN  Update(flat3,
               [price                |-> Get(result, "price"),
                price_classification |-> Get(result, "price_classification"),
                price_difference     |-> Get(result, "price_difference"),
                price_relativity     |-> Get(result, "price_relativity"),
                status               |-> Get(result, "status"),
                url                  |-> Get(result, "url"),
                time                 |-> Get(result, "time")])

\* ------------------------------------------------- records built from a task
TaskRecord(task, status) ==
    [departure_airport |-> Get(task, "departure_code"),
     departure_country |-> Get(task, "departure_country"),
     arrival_airport   |-> Get(task, "arrival_code"),
     arrival_country   |-> Get(task, "arrival_country"),
     departure_date    |-> Get(task, "start_date"),
     return_date       |-> Get(task, "end_date"),
     seat_class        |-> Get(task, "seat_class"),
     status            |-> Some(status),
     price             |-> None,
     time              |-> Get(task, "time")]

CaptchaStatus == "Error: CAPTCHA detected"
CancelledStatus == "Cancelled: CAPTCHA detected in earlier task"
TimeoutStatusDefault(timeout) ==
    "Error: Task timed out after " \o ToString(DEFAULT_TASK_TIMEOUT) \o "s"
TimeoutStatus(timeout) == "Error: Task timed out after " \o ToString(timeout) \o "s"
GenericStatusWithoutMessage(msg) == "Error: "
GenericStatus(msg) == "Error: " \o msg

captcha_result(task) == TaskRecord(task, CaptchaStatus)
timeout_result(task, timeout) == TaskRecord(task, TimeoutStatus(timeout))
_captcha_cancelled_result(task) == TaskRecord(task, CancelledStatus)
generic_error_result_unechoed(task, msg) == TaskRecord(EmptyDict, GenericStatus(msg))
generic_error_result(task, msg) == TaskRecord(task, GenericStatus(msg))

TransientMarkers == {"Error entering departure date", "Price not found"}

\* any(err in result["status"] for err in [...])
NeedsRetryDateOnly(result) == Contains(result.status[1], "Error entering departure date")
NeedsRetry(result) == \E err \in TransientMarkers : Contains(result.status[1], err)

\* What evaluating (err in result["status"]) raises: KeyError without the key,
\* TypeError on None; None when it evaluates.
MarkerCheckError(result) ==
    IF "status" \notin DOMAIN result THEN Some("'status'")
    ELSE IF result.status = None THEN Some("argument of type 'NoneType' is not iterable")
    ELSE None

\* ------------------------------------------------------------------- state
VARIABLES
    tasks,          \* the task list handed to _run_tasks
    n_jobs,         \* policy: concurrency bound
    task_timeout,   \* policy: per-task budget (seconds)
    delay_seconds,  \* policy: sequential pacing base (tenths of a second)
    delay_jitter,   \* policy: sequential pacing jitter (tenths of a second)
    batch_pc,       \* "idle", "sequential", "seq_sleep", "concurrent", "returned",
                    \* "raised"
    captcha_event,  \* asyncio.Event shared by the tasks of the batch
    semaphore,      \* value of the asyncio.Semaphore of _run_concurrent
    seq_i,          \* loop position of _run_sequential (1-based)
    results,        \* sequential: the list being appended to;
                    \* concurrent: gather's per-position results
    sleep_count,    \* number of inter-task sleeps started so far
    sleep_timer,    \* duration of the inter-task sleep in progress
    pc,             \* per task: "pending", "stagger", "waiting", "attempt1",
                    \*           "retry_sleep", "attempt2", "done"
    calls,          \* per task: number of scrape_flight invocations
    last_event,     \* per task: how its latest scrape_flight call ended: "none",
                    \*   "returned_ok", "returned_transient", "raised_captcha",
                    \*   "raised_other", "timed_out"
    output,         \* the list _run_tasks returned
    overtaken,      \* history: some task finished before a task listed ahead of it
    \* the frame of scrape_multiple (untouched while _run_tasks runs)
    arrival_codes,      \* argument: list
    arrival_countries,  \* argument: list
    start_dates,        \* argument: list
    end_dates,          \* argument: list
    seat_classes,       \* argument: list
    output_path,        \* argument: None or a path
    sm_pc,              \* "none" (scrape_multiple not called), "called",
                        \* "validated", "shuffled", "ran", "returned", "raised"
    error,              \* message of the ValueError that left scrape_multiple
    df,                 \* the DataFrame: rows [index |-> label, row |-> record]
    csv,                \* rows written by to_csv, None while nothing is written
    \* frames of the specifications that run one function on its own
    batches,        \* _run_tasks invocations sharing one event loop
    flatten_arg,    \* the dict handed to _flatten_result
    flat,           \* the dict _flatten_result returned, None before it returns
    scraper,        \* GoogleFlightsScraper instance: playwright, browser, context, page
    closes,         \* close()/stop() calls received by each browser object
    sf,             \* frame of scrape_flight: position, arguments, locals, outcome
    relativity_args,    \* the price and price_difference handed to _calc_price_rel
    relativity,         \* <<value>> once _calc_price_rel has returned value
    wfor            \* frame of one _scrape_task_with_timeout call timed in seconds

caller == <<arrival_codes, arrival_countries, start_dates, end_dates, seat_classes,
            output_path, sm_pc, error, df, csv>>

flatten_frame == <<flatten_arg, flat>>

scrape_frame == <<scraper, closes, sf>>

relativity_frame == <<relativity_args, relativity>>

budget_frame == <<wfor>>

elsewhere == <<batches, flatten_frame, scrape_frame, relativity_frame, budget_frame>>

vars == <<tasks, n_jobs, task_timeout, delay_seconds, delay_jitter, batch_pc,
          captcha_event, semaphore, seq_i, results, sleep_count, sleep_timer, pc, calls,
          last_event, output, overtaken, caller, elsewhere>>

settings == <<n_jobs, task_timeout, delay_seconds, delay_jitter, caller, elsewhere>>

policy == <<tasks, settings>>

total == Len(tasks)
Idx == 1..total
NoRecord == <<>>

InFlight(i) == pc[i] \in {"attempt1", "retry_sleep", "attempt2"}

Max(a, b) == IF a >= b THEN a ELSE b

\* no frame other than those of _run_tasks and scrape_multiple
NoBatches == batches = <<>>

NoFlatten == flatten_arg = None /\ flat = None

NoScrape == scraper = None /\ closes = <<>> /\ sf = None

NoRelativity == relativity_args = None /\ relativity = <<>>

NoBudget == wfor = None

NothingElse == NoBatches /\ NoFlatten /\ NoScrape /\ NoRelativity /\ NoBudget

\* _run_tasks driven directly: no scrape_multiple frame
NoCaller ==
    /\ arrival_codes = <<>>
    /\ arrival_countries = <<>>
    /\ start_dates = <<>>
    /\ end_dates = <<>>
    /\ seat_classes = <<>>
    /\ output_path = None
    /\ sm_pc = "none"
    /\ error = None
    /\ df = <<>>
    /\ csv = None

\* the state in which _run_tasks is called with one of task_lists and one of
\* the n_jobs values jobs
InitWithJobs(task_lists, jobs) ==
    /\ NoCaller
    /\ NothingElse
    /\ tasks \in task_lists
    /\ n_jobs \in jobs
    /\ task_timeout \in TimeoutValues
    /\ delay_jitter = DEFAULT_DELAY_JITTER
    \* delay_seconds is read by _run_sequential only
    /\ delay_seconds \in (IF n_jobs = 1 THEN DelayValues ELSE {DEFAULT_DELAY_SECONDS})
    /\ batch_pc = "idle"
    /\ captcha_event = FALSE
    /\ semaphore = 0
    /\ seq_i = 1
    /\ results = <<>>
    /\ sleep_count = 0
    /\ sleep_timer = 0
    /\ pc = [i \in Idx |-> "pending"]
    /\ calls = [i \in Idx |-> 0]
    /\ last_event = [i \in Idx |-> "none"]
    /\ output = <<>>
    /\ overtaken = FALSE

\* the same with n_jobs from 0 (no slot at all) to MaxJobs
InitWith(task_lists) == InitWithJobs(task_lists, 0..MaxJobs)

Init == InitWith({[i \in 1..n |-> MkTask(i)] : n \in 0..MaxTasks})

\* --------------------------------------------------------------- _run_tasks
\* A fresh Event, then the sequential path for n_jobs == 1 and the concurrent
\* path (Semaphore(n_jobs), one coroutine per task handed to gather) otherwise.
SemaphoreRejectsNothing(value) == FALSE
\* asyncio.Semaphore(value) raises ValueError for a negative value
SemaphoreRejects(value) == value < 0

RunTasks ==
    /\ batch_pc = "idle"
    /\ captcha_event' = FALSE
    /\ IF n_jobs = 1
       THEN /\ batch_pc' = "sequential"
            /\ results' = <<>>
            /\ UNCHANGED <<semaphore, pc>>
       ELSE IF SemaphoreRejects(n_jobs)
       THEN \* the ValueError leaves _run_concurrent and _run_tasks
            /\ batch_pc' = "raised"
            /\ UNCHANGED <<semaphore, results, pc>>
       ELSE /\ batch_pc' = "concurrent"
            /\ semaphore' = n_jobs
            /\ results' = [i \in Idx |-> NoRecord]
            /\ pc' = [i \in Idx |-> "stagger"]
    /\ seq_i' = 1
    /\ UNCHANGED <<policy, sleep_count, sleep_timer, calls, last_event, output, overtaken>>

\* ---------------------------------------------------------- _run_sequential
\* if captcha_event.is_set(): ... continue
SeqSkipsNever(event) == FALSE
SeqSkips(event) == event

\* task_copy = task.copy(): the executor is handed the copy, the caller's list
\* of tasks is left as it is
TasksAfterAnnotating(ts, i) ==
    [ts EXCEPT ![i] = [k \in (DOMAIN ts[i]) \cup {"attempt"} |->
                          IF k = "attempt" THEN Some(1) ELSE ts[i][k]]]
TasksAfterCopy(ts, i) == ts

\* result = await _scrape_task_with_timeout(...): the loop stays at position i
\* until the task has returned its record
PositionIfNotAwaited(i) == i + 1
PositionWhileAwaited(i) == i

\* One pass through the loop head: a Cancelled record without any call once
\* the event is set, otherwise _scrape_task_with_timeout is entered and
\* scrape_flight is invoked for the first time.
SeqStep ==
    /\ batch_pc = "sequential"
    /\ seq_i <= total
    /\ pc[seq_i] = "pending"
    /\ IF SeqSkips(captcha_event)
       THEN /\ results' = Append(results, _captcha_cancelled_result(tasks[seq_i]))
            /\ pc' = [pc EXCEPT ![seq_i] = "done"]
            /\ seq_i' = seq_i + 1
            /\ UNCHANGED <<calls, tasks>>
       ELSE /\ tasks' = TasksAfterCopy(tasks, seq_i)
            /\ pc' = [pc EXCEPT ![seq_i] = "attempt1"]
            /\ calls' = [calls EXCEPT ![seq_i] = calls[seq_i] + 1]
            /\ seq_i' = PositionWhileAwaited(seq_i)
            /\ UNCHANGED results
    /\ UNCHANGED <<settings, batch_pc, captcha_event, semaphore, sleep_count, sleep_timer,
                   last_event, output, overtaken>>

\* await asyncio.sleep(actual_delay) is over: next iteration
SeqSleepDone ==
    /\ batch_pc = "seq_sleep"
    /\ batch_pc' = "sequential"
    /\ sleep_timer' = 0
    /\ seq_i' = seq_i + 1
    /\ UNCHANGED <<policy, captcha_event, semaphore, results, sleep_count, pc, calls,
                   last_event, output, overtaken>>

\* the loop is exhausted: return results
SeqReturn ==
    /\ batch_pc = "sequential"
    /\ seq_i > total
    /\ output' = results
    /\ batch_pc' = "returned"
    /\ UNCHANGED <<policy, captcha_event, semaphore, seq_i, results, sleep_count, sleep_timer,
                   pc, calls,
                   last_event, overtaken>>

\* ---------------------------------------------------------- _run_concurrent
\* Semaphore.acquire proceeds only while the value is positive
CanAcquireAlways(value) == TRUE
CanAcquire(value) == value > 0

\* The stagger sleep is over: take a slot if one is free and enter
\* _scrape_task_with_timeout (first scrape_flight call), else wait for one.
StaggerDone(i) ==
    /\ batch_pc = "concurrent"
    /\ pc[i] = "stagger"
    /\ IF CanAcquire(semaphore)
       THEN /\ semaphore' = semaphore - 1
            /\ tasks' = TasksAfterCopy(tasks, i)
            /\ pc' = [pc EXCEPT ![i] = "attempt1"]
            /\ calls' = [calls EXCEPT ![i] = calls[i] + 1]
       ELSE /\ pc' = [pc EXCEPT ![i] = "waiting"]
            /\ UNCHANGED <<semaphore, calls, tasks>>
    /\ UNCHANGED <<settings, batch_pc, captcha_event, seq_i, results, sleep_count,
                   sleep_timer, last_event, output, overtaken>>

\* A waiter is woken by a release and takes the slot.
AcquireAfterWait(i) ==
    /\ batch_pc = "concurrent"
    /\ pc[i] = "waiting"
    /\ CanAcquire(semaphore)
    /\ semaphore' = semaphore - 1
    /\ tasks' = TasksAfterCopy(tasks, i)
    /\ pc' = [pc EXCEPT ![i] = "attempt1"]
    /\ calls' = [calls EXCEPT ![i] = calls[i] + 1]
    /\ UNCHANGED <<settings, batch_pc, captcha_event, seq_i, results, sleep_count,
                   sleep_timer, last_event, output, overtaken>>

\* gather keeps each coroutine's result at the position of its awaitable
GatherSlotByCompletion(i, res) == 1 + Cardinality({k \in DOMAIN res : res[k] # NoRecord})
GatherSlot(i, res) == i

\* gather returns once every coroutine has finished
ConcReturn ==
    /\ batch_pc = "concurrent"
    /\ \A i \in Idx : pc[i] = "done"
    /\ output' = results
    /\ batch_pc' = "returned"
    /\ UNCHANGED <<policy, captcha_event, semaphore, seq_i, results, sleep_count, sleep_timer,
                   pc, calls,
                   last_event, overtaken>>

\* ------------------------------------------------ _scrape_task_with_timeout
\* if i < total and delay_seconds > 0 and not captcha_event.is_set()
SleepsAfterEvery(i, n, delay, ev) == delay > 0 /\ ~ev
SleepsAfterDespiteCaptcha(i, n, delay, ev) == i < n /\ delay > 0
SleepsAfter(i, n, delay, ev) == i < n /\ delay > 0 /\ ~ev

\* actual_delay = max(0.0, delay_seconds + jitter)
actual_delay_unclamped(delay, jitter) == delay + jitter
actual_delay(delay, jitter) == Max(0, delay + jitter)

\* What follows the return of _scrape_task_with_timeout(tasks[i]) with record
\* rec, the event being ev by then.
\*   sequential: results.append(result), then the pacing sleep or the next
\*               iteration;
\*   concurrent: the slot is released (async with) and the coroutine's result
\*               is kept by gather.
Complete(i, rec, ev) ==
    IF batch_pc = "sequential"
    THEN /\ results' = Append(results, rec)
         /\ IF SleepsAfter(i, total, delay_seconds, ev)
            THEN /\ \E jitter \in JitterDraws(delay_jitter) :
                        sleep_timer' = actual_delay(delay_seconds, jitter)
                 /\ sleep_count' = sleep_count + 1
                 /\ batch_pc' = "seq_sleep"
                 /\ UNCHANGED seq_i
            ELSE /\ seq_i' = seq_i + 1
                 /\ UNCHANGED <<sleep_count, sleep_timer, batch_pc>>
         /\ UNCHANGED semaphore
    ELSE /\ results' = [results EXCEPT ![GatherSlot(i, results)] = rec]
         /\ semaphore' = semaphore + 1
         /\ UNCHANGED <<seq_i, sleep_count, sleep_timer, batch_pc>>

task_copy(task) == [k \in DOMAIN task |-> task[k]]

\* scrape_flight returns a dict (either attempt of _scrape_task).  The first
\* result is tested for the transient markers, a test that raises into
\* "except Exception" on a result without a status string; the second result
\* is flattened as it is.
CollaboratorReturns(i, kind) ==
    /\ batch_pc \in {"sequential", "concurrent"}
    /\ pc[i] \in {"attempt1", "attempt2"}
    /\ LET result == ScrapeResult(task_copy(tasks[i]), kind)
       IN  /\ last_event' = [last_event EXCEPT ![i] =
                                IF kind \in MalformedKinds THEN "returned_malformed"
                                ELSE IF IsTransientKind(kind) THEN "returned_transient"
                                ELSE "returned_ok"]
           /\ IF pc[i] = "attempt1" /\ MarkerCheckError(result) # None
              THEN /\ pc' = [pc EXCEPT ![i] = "done"]
                   /\ Complete(i, generic_error_result(task_copy(tasks[i]),
                                                       MarkerCheckError(result)[1]),
                               captcha_event)
              ELSE IF pc[i] = "attempt1" /\ NeedsRetry(result)
              THEN \* retry once with extra delay
                   /\ pc' = [pc EXCEPT ![i] = "retry_sleep"]
                   /\ UNCHANGED <<results, semaphore, seq_i, sleep_count, sleep_timer, batch_pc>>
              ELSE /\ pc' = [pc EXCEPT ![i] = "done"]
                   /\ Complete(i, _flatten_result(result), captcha_event)
    /\ UNCHANGED <<policy, captcha_event, calls, output>>
    /\ overtaken' = (overtaken \/ (pc'[i] = "done" /\ \E j \in 1..(i - 1) : pc[j] # "done"))

\* the retry delay is over: scrape_flight is invoked a second time
RetrySleepDone(i) ==
    /\ batch_pc \in {"sequential", "concurrent"}
    /\ pc[i] = "retry_sleep"
    /\ pc' = [pc EXCEPT ![i] = "attempt2"]
    /\ calls' = [calls EXCEPT ![i] = calls[i] + 1]
    /\ UNCHANGED <<policy, batch_pc, captcha_event, semaphore, seq_i, results, sleep_count, sleep_timer,
                   last_event, output, overtaken>>

\* The except clauses an exception of scrape_flight meets on its way out:
\* CaptchaDetectedError is re-raised by _scrape_task and handled by
\* _scrape_task_with_timeout, any other Exception by _scrape_task.
HandledOnlyCaptcha(exc) == exc = "captcha"
Handled(exc) == exc \in {"captcha", "other"}

\* captcha_event.set() happens in the CaptchaDetectedError handler only
EventAfterAnyRaise(event, exc) == TRUE
EventToggledByRaise(event, exc) == IF exc = "captcha" THEN ~event ELSE event
EventAfterRaise(event, exc) == event \/ exc = "captcha"

RecordAllGeneric(task, exc) == generic_error_result(task, ExceptionMessage)
RecordAfterRaise(task, exc) ==
    IF exc = "captcha"
    THEN captcha_result(task)
    ELSE generic_error_result(task, ExceptionMessage)

\* scrape_flight raises (either attempt of _scrape_task)
CollaboratorRaises(i, exc) ==
    /\ batch_pc \in {"sequential", "concurrent"}
    /\ pc[i] \in {"attempt1", "attempt2"}
    /\ last_event' = [last_event EXCEPT ![i] =
                         IF exc = "captcha" THEN "raised_captcha" ELSE "raised_other"]
    /\ IF Handled(exc)
       THEN /\ captcha_event' = EventAfterRaise(captcha_event, exc)
            /\ pc' = [pc EXCEPT ![i] = "done"]
            /\ Complete(i, RecordAfterRaise(tasks[i], exc), captcha_event')
       ELSE \* the exception leaves _run_tasks
            /\ batch_pc' = "raised"
            /\ UNCHANGED <<captcha_event, pc, results, semaphore, seq_i, sleep_count, sleep_timer>>
    /\ UNCHANGED <<policy, calls, output>>
    /\ overtaken' = (overtaken \/ (pc'[i] = "done" /\ \E j \in 1..(i - 1) : pc[j] # "done"))

\* (a wait_for that also gave up, with a Cancelled record, on a set event)
PreemptingTimeout(i) ==
    /\ batch_pc \in {"sequential", "concurrent"}
    /\ InFlight(i)
    /\ last_event' = [last_event EXCEPT ![i] = IF captcha_event THEN @ ELSE "timed_out"]
    /\ pc' = [pc EXCEPT ![i] = "done"]
    /\ Complete(i, IF captcha_event THEN _captcha_cancelled_result(tasks[i])
                                    ELSE timeout_result(tasks[i], task_timeout),
                captcha_event)
    /\ UNCHANGED <<policy, captcha_event, calls, output>>
    /\ overtaken' = (overtaken \/ (pc'[i] = "done" /\ \E j \in 1..(i - 1) : pc[j] # "done"))

\* (a timeout that left the "async with semaphore" block without releasing)
TimeoutKeepingSlot(i) ==
    /\ batch_pc \in {"sequential", "concurrent"}
    /\ InFlight(i)
    /\ last_event' = [last_event EXCEPT ![i] = "timed_out"]
    /\ pc' = [pc EXCEPT ![i] = "done"]
    /\ IF batch_pc = "sequential"
       THEN Complete(i, timeout_result(tasks[i], task_timeout), captcha_event)
       ELSE /\ results' = [results EXCEPT ![GatherSlot(i, results)] =
                                          timeout_result(tasks[i], task_timeout)]
            /\ UNCHANGED <<semaphore, seq_i, sleep_count, sleep_timer, batch_pc>>
    /\ UNCHANGED <<policy, captcha_event, calls, output>>
    /\ overtaken' = (overtaken \/ (pc'[i] = "done" /\ \E j \in 1..(i - 1) : pc[j] # "done"))

\* (a deadline that watched the first scrape_flight call only)
TimeoutFirstAttemptOnly(i) ==
    /\ batch_pc \in {"sequential", "concurrent"}
    /\ pc[i] = "attempt1"
    /\ last_event' = [last_event EXCEPT ![i] = "timed_out"]
    /\ pc' = [pc EXCEPT ![i] = "done"]
    /\ Complete(i, timeout_result(tasks[i], task_timeout), captcha_event)
    /\ UNCHANGED <<policy, captcha_event, calls, output>>
    /\ overtaken' = (overtaken \/ (pc'[i] = "done" /\ \E j \in 1..(i - 1) : pc[j] # "done"))

\* asyncio.wait_for gives up: _scrape_task is cancelled wherever it is
\* (first call, retry delay, second call) and the TimedOut record is returned
Timeout(i) ==
    /\ batch_pc \in {"sequential", "concurrent"}
    /\ InFlight(i)
    /\ last_event' = [last_event EXCEPT ![i] = "timed_out"]
    /\ pc' = [pc EXCEPT ![i] = "done"]
    /\ Complete(i, timeout_result(tasks[i], task_timeout), captcha_event)
    /\ UNCHANGED <<policy, captcha_event, calls, output>>
    /\ overtaken' = (overtaken \/ (pc'[i] = "done" /\ \E j \in 1..(i - 1) : pc[j] # "done"))

\* ----------------------------------------------------------- specification
Next ==
    \/ RunTasks
    \/ SeqStep
    \/ SeqSleepDone
    \/ SeqReturn
    \/ ConcReturn
    \/ \E i \in Idx : StaggerDone(i)
    \/ \E i \in Idx : AcquireAfterWait(i)
    \/ \E i \in Idx : \E kind \in ReturnKinds : CollaboratorReturns(i, kind)
    \/ \E i \in Idx : RetrySleepDone(i)
    \/ \E i \in Idx : \E exc \in RaiseKinds : CollaboratorRaises(i, exc)
    \/ \E i \in Idx : Timeout(i)

Spec == Init /\ [][Next]_vars

\* The event loop runs every coroutine that is ready, a sleep ends, the
\* deadline of wait_for fires on a task still in flight, and the waiters of
\* the Semaphore are woken first come first served.  The collaborator owes
\* nothing: a scrape_flight call may never return.
Fairness ==
    /\ WF_vars(RunTasks)
    /\ WF_vars(SeqStep)
    /\ WF_vars(SeqSleepDone)
    /\ WF_vars(SeqReturn)
    /\ WF_vars(ConcReturn)
    /\ \A i \in 1..MaxTasks : WF_vars(i \in Idx /\ StaggerDone(i))
    /\ \A i \in 1..MaxTasks : SF_vars(i \in Idx /\ AcquireAfterWait(i))
    /\ \A i \in 1..MaxTasks : WF_vars(i \in Idx /\ Timeout(i))

\* the batches whose infinite runs are examined: up to three tasks, the
\* default timeout
FairBatchSizes == {0, 1, 2, 3}

InitFair ==
    /\ InitWith({[i \in 1..n |-> MkTask(i)] : n \in FairBatchSizes})
    /\ task_timeout = DEFAULT_TASK_TIMEOUT

SpecFair == InitFair /\ [][Next]_vars /\ Fairness

\* the same engine called with any n_jobs, a negative one included
AnyJobs == (0 - 1)..MaxJobs

InitAnyJobs ==
    /\ InitWithJobs({[i \in 1..n |-> MkTask(i)] : n \in FairBatchSizes}, AnyJobs)
    /\ task_timeout = DEFAULT_TASK_TIMEOUT

SpecAnyJobs == InitAnyJobs /\ [][Next]_vars

\* the same engine run on tasks that carry a "time" entry
InitTimed == InitWith({[i \in 1..n |-> MkTimedTask(i)] : n \in 0..MaxTasks})

SpecTimed == InitTimed /\ [][Next]_vars

\* the same engine against a collaborator that may also return a result
\* without a status
NextAnyResult ==
    \/ Next
    \/ \E i \in Idx : \E kind \in MalformedKinds : CollaboratorReturns(i, kind)

SpecAnyResult == Init /\ [][NextAnyResult]_vars

\* ------------------------------------------------------------------ claims
Returned == batch_pc = "returned"

\* the record held for task i (results[i] in both modes), NoRecord if none
RecordOf(i) == IF i \in DOMAIN results THEN results[i] ELSE NoRecord

HasStatus(rec, text) == Get(rec, "status") = Some(text)

\* rec names the route, dates and cabin of task
Echoes(rec, task) ==
    /\ Get(rec, "departure_airport") = task.departure_code
    /\ Get(rec, "departure_country") = task.departure_country
    /\ Get(rec, "arrival_airport") = task.arrival_code
    /\ Get(rec, "arrival_country") = task.arrival_country
    /\ Get(rec, "departure_date") = task.start_date
    /\ Get(rec, "return_date") = task.end_date
    /\ Get(rec, "seat_class") = task.seat_class

TimeoutText ==
    CASE task_timeout = 1   -> "Error: Task timed out after 1s"
      [] task_timeout = 120 -> "Error: Task timed out after 120s"

\* rec reports what happened to task i
ReportsOutcome(rec, i) ==
    CASE last_event[i] = "none" ->
            calls[i] = 0 /\ HasStatus(rec, "Cancelled: CAPTCHA detected in earlier task")
      [] last_event[i] = "returned_ok" -> HasStatus(rec, "Ran successfully.")
      [] last_event[i] = "returned_transient" ->
            \/ HasStatus(rec, "Error: Error entering departure date:")
            \/ HasStatus(rec, "Error: Price not found")
      [] last_event[i] = "raised_captcha" -> HasStatus(rec, "Error: CAPTCHA detected")
      [] last_event[i] = "raised_other" -> HasStatus(rec, "Error: Network error")
      [] last_event[i] = "timed_out" -> HasStatus(rec, TimeoutText)

\* C1: when _run_tasks has returned (n_jobs >= 1, either mode) the output has
\* exactly len(tasks) records and the record at index i is the one produced
\* for tasks[i]: it names that task's route and dates and reports that task's
\* outcome, whatever order the tasks completed in.
C1_OrderPreserved ==
    (Returned /\ n_jobs >= 1) =>
        /\ Len(output) = Len(tasks)
        /\ \A i \in 1..Len(output) :
              /\ i \in Idx
              /\ Echoes(output[i], tasks[i])
              /\ ReportsOutcome(output[i], i)

C1_Witness ==
    /\ Returned
    /\ n_jobs = 2
    /\ total = 3
    /\ overtaken
    /\ last_event[1] = "timed_out"
    /\ last_event[2] = "returned_ok"
    /\ last_event[3] = "raised_other"

\* C2: in concurrent mode the number of tasks inside the admission slot
\* (semaphore acquired and not yet released) never exceeds n_jobs.
C2_AdmissionBound ==
    batch_pc = "concurrent" => Cardinality({i \in Idx : InFlight(i)}) <= n_jobs

C2_Witness ==
    /\ batch_pc = "concurrent"
    /\ n_jobs = 2
    /\ Cardinality({i \in Idx : InFlight(i)}) = 2
    /\ \E i \in Idx : pc[i] = "waiting"

\* C3: in sequential mode, once task i's collaborator has raised
\* CaptchaDetectedError every later task j > i is never handed to the
\* collaborator and its record, once produced, is the Cancelled record with
\* price absent; at the return every such record exists.  With 3 tasks and
\* the captcha on the 2nd the statuses are [success, captcha, cancelled] and
\* the collaborator was called exactly twice.
C3_SequentialCancellation ==
    n_jobs = 1 =>
        /\ \A i \in Idx : \A j \in Idx :
              (last_event[i] = "raised_captcha" /\ j > i) =>
                  /\ calls[j] = 0
                  /\ pc[j] \in {"pending", "done"}
                  /\ (pc[j] = "done" \/ Returned) =>
                        /\ HasStatus(RecordOf(j), "Cancelled: CAPTCHA detected in earlier task")
                        /\ Get(RecordOf(j), "price") = None
        /\ (Returned /\ total = 3 /\ last_event[1] = "returned_ok" /\ calls[1] = 1
                /\ last_event[2] = "raised_captcha" /\ calls[2] = 1) =>
              /\ Len(output) = 3
              /\ HasStatus(output[1], "Ran successfully.")
              /\ HasStatus(output[2], "Error: CAPTCHA detected")
              /\ HasStatus(output[3], "Cancelled: CAPTCHA detected in earlier task")
              /\ calls[1] + calls[2] + calls[3] = 2

C3_Witness ==
    /\ Returned
    /\ n_jobs = 1
    /\ total = 3
    /\ last_event[1] = "returned_ok"
    /\ last_event[2] = "raised_captcha"
    /\ HasStatus(output[3], "Cancelled: CAPTCHA detected in earlier task")
    /\ calls = <<1, 1, 0>>

\* C4: in concurrent mode a task that takes its admission slot while the
\* cancellation signal is set ends at once with the Cancelled record and its
\* collaborator is never invoked.
C4_ConcurrentCancellation ==
    [][\A i \in Idx :
          (batch_pc = "concurrent" /\ captcha_event
              /\ pc[i] \in {"stagger", "waiting"}
              /\ pc'[i] \notin {"stagger", "waiting"}) =>
                  /\ pc'[i] = "done"
                  /\ calls'[i] = 0
                  /\ HasStatus(results'[i], "Cancelled: CAPTCHA detected in earlier task")]_vars

\* C5: a task whose collaborator raised CaptchaDetectedError has finished with
\* the signal set and the record 'Error: CAPTCHA detected', price absent
\* (neither a generic 'Error: <message>' nor a Cancelled record), and the
\* exception did not leave the batch.
C5_CaptchaRecord ==
    \A i \in Idx :
        last_event[i] = "raised_captcha" =>
            /\ captcha_event
            /\ batch_pc # "raised"
            /\ pc[i] = "done"
            /\ HasStatus(RecordOf(i), "Error: CAPTCHA detected")
            /\ Get(RecordOf(i), "price") = None

C5_Witness ==
    \E i \in Idx :
        /\ last_event[i] = "raised_captcha"
        /\ pc[i] = "done"
        /\ HasStatus(RecordOf(i), "Error: CAPTCHA detected")
        /\ captcha_event

\* C6: cancellation is cooperative.  In concurrent mode a step in which one
\* task's collaborator raises the captcha leaves every other task that is
\* inside its slot exactly where it is, and every task whose collaborator was
\* invoked ends with the record of its own outcome, never a Cancelled one.
C6_Cooperative ==
    /\ [](n_jobs # 1 =>
            \A i \in Idx :
                (pc[i] = "done" /\ calls[i] >= 1) =>
                    /\ ~HasStatus(RecordOf(i), "Cancelled: CAPTCHA detected in earlier task")
                    /\ ReportsOutcome(RecordOf(i), i))
    /\ [][\A i \in Idx : \A j \in Idx :
            (n_jobs # 1 /\ i # j /\ InFlight(i)
                /\ last_event[j] # "raised_captcha" /\ last_event'[j] = "raised_captcha") =>
                    /\ pc'[i] = pc[i]
                    /\ calls'[i] = calls[i]
                    /\ last_event'[i] = last_event[i]]_vars

\* Task 3 waits for a slot, so both slots were taken by tasks 1 and 2 when it
\* arrived: task 2 was inside its slot when task 1 hit the captcha, and is
\* still there, on its second attempt.
C6_Witness ==
    /\ batch_pc = "concurrent"
    /\ n_jobs = 2
    /\ total = 3
    /\ captcha_event
    /\ last_event[1] = "raised_captcha"
    /\ pc[2] = "attempt2"
    /\ pc[3] = "waiting"

\* C7: whatever the collaborators do (return, transient return, captcha,
\* other exception, no return before the timeout), no exception leaves the
\* batch: every finished task has a record with a populated status that
\* reports its outcome, and the returned list has one record per task.
C7_NeverRaises ==
    /\ batch_pc # "raised"
    /\ \A i \in Idx :
          pc[i] = "done" =>
              /\ Get(RecordOf(i), "status") # None
              /\ ReportsOutcome(RecordOf(i), i)
    /\ Returned => Len(output) = total

C7_Witness ==
    /\ Returned
    /\ total = 3
    /\ \E i \in Idx : last_event[i] = "raised_other"
    /\ \E i \in Idx : last_event[i] = "timed_out"
    /\ \E i \in Idx : last_event[i] = "returned_transient"

\* C8: the signal is set only by a CaptchaDetectedError: it is set only if
\* some collaborator raised the captcha, so after generic errors, timeouts
\* and transient failures alone it is unset and every task of the returned
\* batch was attempted.
C8_SignalOnlyOnCaptcha ==
    /\ captcha_event => \E i \in Idx : last_event[i] = "raised_captcha"
    /\ (Returned /\ n_jobs >= 1 /\ \A i \in Idx : last_event[i] # "raised_captcha") =>
            \A j \in Idx :
                /\ calls[j] >= 1
                /\ ~HasStatus(RecordOf(j), "Cancelled: CAPTCHA detected in earlier task")

C8_Witness ==
    /\ Returned
    /\ n_jobs = 1
    /\ total = 3
    /\ ~captcha_event
    /\ last_event[1] = "raised_other"
    /\ last_event[2] = "timed_out"
    /\ calls[3] >= 1

\* what C9 states apart from "a transient first result is always retried"
C9_Common(i) ==
    /\ calls'[i] <= 2
    /\ calls'[i] \in {calls[i], calls[i] + 1}
    \* a second invocation only after a transient first result
    /\ (calls[i] = 1 /\ calls'[i] = 2) =>
            (pc[i] = "retry_sleep" /\ last_event[i] = "returned_transient")
    \* a transient first result is not the outcome: the retry delay starts
    /\ (pc[i] = "attempt1" /\ last_event'[i] = "returned_transient") =>
            (pc'[i] = "retry_sleep" /\ RecordOf(i)' = RecordOf(i))
    \* a first result without marker is the outcome, without a second call
    /\ (pc[i] = "attempt1" /\ last_event'[i] = "returned_ok") =>
            (pc'[i] = "done" /\ calls'[i] = 1)
    \* the second result is the outcome even when transient again
    /\ (pc[i] = "attempt2" /\ pc'[i] # "attempt2") => pc'[i] = "done"
    /\ (pc[i] = "attempt2" /\ pc'[i] = "done" /\ last_event'[i] = "returned_transient") =>
            /\ calls'[i] = 2
            /\ \/ HasStatus(RecordOf(i)', "Error: Error entering departure date:")
               \/ HasStatus(RecordOf(i)', "Error: Price not found")

\* C9 (as stated): at most two invocations per task; the second one happens
\* exactly when the first attempt returned a transient marker (whenever the
\* retry delay ends, the second invocation is made); the second attempt's
\* record is the outcome even if transient again.
C9_RetryExactlyOnce ==
    [][\A i \in Idx :
          /\ C9_Common(i)
          /\ (pc[i] = "retry_sleep" /\ pc'[i] # "retry_sleep") =>
                (pc'[i] = "attempt2" /\ calls'[i] = 2)]_vars

\* C9 (amended): as above, except that the retry delay ends either in the
\* second invocation or in the task's timeout, which yields the TimedOut
\* record without a second invocation.
C9_RetryOnceUnlessTimeout ==
    [][\A i \in Idx :
          /\ C9_Common(i)
          /\ (pc[i] = "retry_sleep" /\ pc'[i] # "retry_sleep") =>
                \/ (pc'[i] = "attempt2" /\ calls'[i] = 2)
                \/ /\ pc'[i] = "done"
                   /\ calls'[i] = 1
                   /\ last_event'[i] = "timed_out"
                   /\ HasStatus(RecordOf(i)', TimeoutText)]_vars

C9_Witness ==
    \E i \in Idx :
        /\ pc[i] = "done"
        /\ calls[i] = 2
        /\ last_event[i] = "returned_transient"
        /\ HasStatus(RecordOf(i), "Error: Price not found")

\* C10: a task whose timeout expired has finished with the record
\* 'Error: Task timed out after {task_timeout}s', price absent, the task's
\* identifying fields echoed; its call is abandoned: a finished task makes
\* no further collaborator call and stays finished.
C10_TimedOutRecord ==
    /\ [](\A i \in Idx :
            last_event[i] = "timed_out" =>
                /\ pc[i] = "done"
                /\ HasStatus(RecordOf(i), TimeoutText)
                /\ Get(RecordOf(i), "price") = None
                /\ Echoes(RecordOf(i), tasks[i]))
    /\ [][\A i \in Idx :
            pc[i] = "done" =>
                (pc'[i] = "done" /\ calls'[i] = calls[i] /\ RecordOf(i)' = RecordOf(i))]_vars

C10_Witness ==
    \E i \in Idx :
        /\ task_timeout = 1
        /\ last_event[i] = "timed_out"
        /\ calls[i] = 1
        /\ pc[i] = "done"
        /\ HasStatus(RecordOf(i), "Error: Task timed out after 1s")
        /\ Get(RecordOf(i), "price") = None

\* the tasks that are finished and are not the last of the batch
FinishedBeforeLast == {i \in Idx : pc[i] = "done" /\ i < total}

C17_StatusPopulated ==
    \A i \in Idx : pc[i] = "done" => Get(RecordOf(i), "status") # None

\* C18: a task whose collaborator raised an exception other than the captcha
\* has finished with the record 'Error: <message of the exception>', price
\* absent, the seven identifying fields echoed from the task, and the
\* exception did not leave the batch.
C18_GenericErrorRecord ==
    \A i \in Idx :
        last_event[i] = "raised_other" =>
            /\ batch_pc # "raised"
            /\ pc[i] = "done"
            /\ HasStatus(RecordOf(i), "Error: " \o ExceptionMessage)
            /\ Get(RecordOf(i), "price") = None
            /\ "price" \in DOMAIN RecordOf(i)
            /\ Echoes(RecordOf(i), tasks[i])

C18_Witness ==
    \E i \in Idx :
        /\ last_event[i] = "raised_other"
        /\ calls[i] = 1
        /\ pc[i] = "done"
        /\ HasStatus(RecordOf(i), "Error: Network error")
        /\ Get(RecordOf(i), "arrival_airport") = Some("A" \o ToString(i))
        /\ Get(RecordOf(i), "seat_class") = Some("Economy")

\* C19: when the first attempt returned a transient marker and the second
\* attempt raised a non-captcha exception, the task's record is the generic
\* Error record of the second attempt's exception: its status is
\* 'Error: <message>' without any transient marker and it has none of the
\* fields a flattened collaborator result has.
C19_RetryFailureReported ==
    \A i \in Idx :
        (calls[i] = 2 /\ last_event[i] = "raised_other") =>
            /\ pc[i] = "done"
            /\ RecordOf(i) # NoRecord
            /\ HasStatus(RecordOf(i), "Error: Network error")
            /\ \A err \in TransientMarkers : ~Contains(Get(RecordOf(i), "status")[1], err)
            /\ DOMAIN RecordOf(i) = {"departure_airport", "departure_country",
                                     "arrival_airport", "arrival_country",
                                     "departure_date", "return_date", "seat_class",
                                     "status", "price", "time"}

C19_Witness ==
    \E i \in Idx :
        /\ calls[i] = 2
        /\ last_event[i] = "raised_other"
        /\ pc[i] = "done"
        /\ HasStatus(RecordOf(i), "Error: Network error")
        /\ "url" \notin DOMAIN RecordOf(i)

\* C20: the record of a task that carries a "time" entry and whose scrape
\* succeeded carries the task's "time" value.
C20_TimeCarried ==
    \A i \in Idx :
        (pc[i] = "done" /\ last_event[i] = "returned_ok" /\ Get(tasks[i], "time") # None) =>
            Get(RecordOf(i), "time") = Get(tasks[i], "time")

\* C21: the list of tasks handed to _run_tasks is never written: at every
\* moment, and so after the return, each task has the fields and values it was
\* passed with, whatever the outcome of the task (success, retry, error,
\* timeout, captcha, cancelled).
C21_TasksUntouched ==
    /\ tasks = [i \in 1..Len(tasks) |-> MkTask(i)]
    /\ \A i \in Idx : DOMAIN tasks[i] = DOMAIN MkTask(i)

C21_Witness ==
    /\ Returned
    /\ n_jobs = 1
    /\ total = 3
    /\ calls = <<2, 1, 0>>
    /\ last_event[1] = "returned_ok"
    /\ last_event[2] = "raised_captcha"
    /\ HasStatus(output[3], "Cancelled: CAPTCHA detected in earlier task")
    /\ tasks[1] = MkTask(1)

\* the tasks whose collaborator has been invoked
Started == {i \in Idx : calls[i] >= 1}

\* C22: in sequential mode the collaborator of a task is invoked only when
\* every earlier task is finished and has its record, at most one task is
\* between its first invocation and its record, and the records are produced
\* in input order (the finished tasks are the first Len(results) ones).
C22_StrictOrder ==
    n_jobs = 1 =>
        /\ Cardinality({i \in Idx : InFlight(i)}) <= 1
        /\ \A i \in Idx : \A j \in Idx :
              (i < j /\ (j \in Started \/ pc[j] = "done")) =>
                  (pc[i] = "done" /\ RecordOf(i) # NoRecord)
        /\ {i \in Idx : pc[i] = "done"} = 1..Len(results)
        /\ \A i \in 1..Len(results) : i \in Idx /\ Echoes(results[i], tasks[i])

C22_Witness ==
    /\ n_jobs = 1
    /\ total = 3
    /\ pc[1] = "done"
    /\ calls[1] = 2
    /\ pc[2] = "retry_sleep"
    /\ pc[3] = "pending"
    /\ Len(results) = 1

\* C23: within a batch the signal is monotonic: no step clears it; a captcha
\* raised while it is already set leaves it set, and the task that raised it
\* finishes in that step with its own 'Error: CAPTCHA detected' record, as
\* every task whose collaborator raised the captcha does.
C23_SignalMonotonic ==
    /\ [][captcha_event => captcha_event']_vars
    /\ [][\A i \in Idx :
            (captcha_event /\ last_event[i] # "raised_captcha"
                /\ last_event'[i] = "raised_captcha") =>
                    /\ captcha_event'
                    /\ pc'[i] = "done"
                    /\ HasStatus(RecordOf(i)', "Error: CAPTCHA detected")]_vars
    /\ [](\A i \in Idx :
            last_event[i] = "raised_captcha" =>
                (captcha_event /\ HasStatus(RecordOf(i), "Error: CAPTCHA detected")))

C23_Witness ==
    /\ Returned
    /\ n_jobs = 2
    /\ captcha_event
    /\ Cardinality({i \in Idx : last_event[i] = "raised_captcha"}) >= 2
    /\ \A i \in Idx :
          last_event[i] = "raised_captcha" => HasStatus(output[i], "Error: CAPTCHA detected")

\* C31: an inter-task sleep in progress lasts max(0, delay_seconds + j) for
\* some j in [-delay_jitter, +delay_jitter]: never negative, never more than
\* delay_seconds + delay_jitter, and 0 when delay_seconds + j is negative.
C31_SleepDuration ==
    batch_pc = "seq_sleep" =>
        /\ sleep_timer >= 0
        /\ sleep_timer <= delay_seconds + delay_jitter
        /\ \E j \in (0 - delay_jitter)..delay_jitter :
               sleep_timer = (IF delay_seconds + j < 0 THEN 0 ELSE delay_seconds + j)

\* a draw that took delay_seconds + j below zero: the sleep lasts 0
C31_Witness ==
    /\ batch_pc = "seq_sleep"
    /\ delay_seconds = 2
    /\ delay_jitter = 5
    /\ sleep_timer = 0

\* the later tasks of a sequential batch whose task i met the captcha are
\* recorded as Cancelled without a call
CancelledBehind(i) ==
    \A k \in (i + 1)..total :
        /\ calls[k] = 0
        /\ (pc[k] = "done" \/ Returned) =>
               HasStatus(RecordOf(k), "Cancelled: CAPTCHA detected in earlier task")

\* C32 (as stated): in sequential mode no inter-task sleep is in progress
\* while the signal is set, the tasks behind the one that met the captcha are
\* recorded as Cancelled, and a batch whose captcha occurred at task i has
\* performed exactly i - 1 inter-task sleeps.
C32_SleepsBeforeCaptcha ==
    n_jobs = 1 =>
        /\ captcha_event => batch_pc # "seq_sleep"
        /\ \A i \in Idx : last_event[i] = "raised_captcha" =>
               /\ CancelledBehind(i)
               /\ sleep_count = i - 1

\* C32 (amended): the same, the count being i - 1 when delay_seconds > 0 and
\* 0 when delay_seconds is 0, in which case no inter-task sleep occurs at all.
C32_SleepsBeforeCaptchaIfPaced ==
    n_jobs = 1 =>
        /\ captcha_event => batch_pc # "seq_sleep"
        /\ \A i \in Idx : last_event[i] = "raised_captcha" =>
               /\ CancelledBehind(i)
               /\ sleep_count = (IF delay_seconds > 0 THEN i - 1 ELSE 0)

\* three tasks, paced, the captcha at the second: one sleep, after the first
C32_Witness ==
    /\ Returned
    /\ n_jobs = 1
    /\ delay_seconds = 20
    /\ total = 3
    /\ last_event[2] = "raised_captcha"
    /\ sleep_count = 1
    /\ HasStatus(output[3], "Cancelled: CAPTCHA detected in earlier task")

Waiting(i) == i \in Idx /\ pc[i] = "waiting"

Admitted(i) == i \in Idx /\ pc[i] \in {"attempt1", "retry_sleep", "attempt2", "done"}

\* the slots of the Semaphore that are held
SlotsHeld == Cardinality({i \in Idx : InFlight(i)})

\* C33: in concurrent mode with n_jobs >= 1 the free slots and the tasks in
\* flight always add up to n_jobs, whichever way a task left the executor
\* (record returned, generic error, captcha, timeout); when the batch returns
\* all n_jobs slots are free; and every task waiting for a slot is
\* eventually admitted.
C33_SlotsReleased ==
    /\ [](batch_pc \in {"concurrent", "returned"} /\ n_jobs # 1 =>
             /\ semaphore + SlotsHeld = n_jobs
             /\ Returned => semaphore = n_jobs)
    /\ \A i \in 1..MaxTasks : (n_jobs >= 1 /\ Waiting(i)) ~> Admitted(i)

\* no task of the batch has been started or recorded
NothingStarted ==
    /\ \A i \in Idx : calls[i] = 0 /\ ~Admitted(i) /\ RecordOf(i) = NoRecord
    /\ output = <<>>

\* the sequential path is taken exactly when n_jobs == 1
SequentialIffOne ==
    /\ batch_pc \in {"sequential", "seq_sleep"} => n_jobs = 1
    /\ batch_pc = "concurrent" => n_jobs # 1
    /\ n_jobs = 1 => batch_pc \in {"idle", "sequential", "seq_sleep", "returned"}

\* with n_jobs = 0 and tasks to run nothing is admitted, no call is made and
\* the batch does not return
ZeroJobsStall ==
    (n_jobs = 0 /\ total > 0) => (NothingStarted /\ batch_pc \in {"idle", "concurrent"})

\* C36 (as stated): once _run_tasks has chosen its path, it is the
\* sequential one exactly when n_jobs == 1 and for every other value the
\* concurrent one with n_jobs slots (free or held); with n_jobs = 0 and tasks
\* to run nothing is ever admitted or called and the batch never returns.
C36_PathByJobs ==
    /\ SequentialIffOne
    /\ (batch_pc # "idle" /\ n_jobs # 1) =>
           /\ batch_pc \in {"concurrent", "returned"}
           /\ semaphore + SlotsHeld = n_jobs
    /\ ZeroJobsStall

\* C36 (amended): the same for every n_jobs >= 0; with a negative n_jobs the
\* concurrent path is entered but the Semaphore cannot be built: _run_tasks
\* raises before any task is started.
C36_PathByJobsOrRaise ==
    /\ SequentialIffOne
    /\ (batch_pc # "idle" /\ n_jobs # 1 /\ n_jobs >= 0) =>
           /\ batch_pc \in {"concurrent", "returned"}
           /\ semaphore + SlotsHeld = n_jobs
    /\ (batch_pc # "idle" /\ n_jobs < 0) => (batch_pc = "raised" /\ NothingStarted)
    /\ batch_pc = "raised" => n_jobs < 0
    /\ ZeroJobsStall

\* n_jobs = 0 with two tasks: both wait for a slot that never comes
C36_Witness ==
    /\ n_jobs = 0
    /\ total = 2
    /\ batch_pc = "concurrent"
    /\ semaphore = 0
    /\ \A i \in Idx : pc[i] = "waiting" /\ calls[i] = 0

\* a task timed out while another was waiting for its slot, and the batch
\* returned with every task admitted
C33_Witness ==
    /\ Returned
    /\ n_jobs = 2
    /\ total = 3
    /\ semaphore = 2
    /\ last_event[1] = "timed_out"
    /\ last_event[2] = "raised_captcha"
    /\ last_event[3] = "returned_ok"

\* C35: for n_jobs >= 1 the batch eventually returns although no
\* collaborator call is bound to return; by then every task has exactly one
\* record and was handed to the collaborator at most twice.
C35_BatchReturns ==
    /\ n_jobs >= 1 => <>Returned
    /\ [](Returned =>
             /\ Len(output) = total
             /\ \A i \in Idx : output[i] # NoRecord /\ calls[i] <= 2 /\ pc[i] = "done")

\* every collaborator call of the batch hung and was ended by its timeout
C35_Witness ==
    /\ Returned
    /\ total = 3
    /\ n_jobs = 2
    /\ \A i \in Idx : last_event[i] = "timed_out" /\ calls[i] = 1

\* ---------------------------------------------------------- scrape_multiple
\* scrape_multiple validates its five parallel lists, shuffles them together,
\* builds one task per position, awaits _run_tasks, and aggregates the records
\* into a DataFrame sorted by price_relativity.

ListNames == <<"arrival_codes", "arrival_countries", "start_dates", "end_dates",
               "seat_classes">>

\* raise ValueError(...) of _validate_inputs: the message, None when it returns
_validate_inputs_skipping_end_dates(codes, countries, starts, ends, seats) ==
    IF Len(codes) # Len(countries)
    THEN Some("arrival_codes and arrival_countries must have same length")
    ELSE IF Len(codes) # Len(starts)
    THEN Some("arrival_codes and start_dates must have same length")
    ELSE IF Len(codes) # Len(seats)
    THEN Some("arrival_codes and seat_classes must have same length")
    ELSE None
_validate_inputs(codes, countries, starts, ends, seats) ==
    IF Len(codes) # Len(countries)
    THEN Some("arrival_codes and arrival_countries must have same length")
    ELSE IF Len(codes) # Len(starts)
    THEN Some("arrival_codes and start_dates must have same length")
    ELSE IF Len(codes) # Len(ends)
    THEN Some("arrival_codes and end_dates must have same length")
    ELSE IF Len(codes) # Len(seats)
    THEN Some("arrival_codes and seat_classes must have same length")
    ELSE None

Min(S) == CHOOSE x \in S : \A y \in S : x <= y

\* zip(*lists, strict=True): the message of its ValueError, None when every
\* list has the same length.  The first list found exhausted decides.
ZipStrictError(lists) ==
    LET m == Min({Len(lists[k]) : k \in DOMAIN lists})
        j == Min({k \in DOMAIN lists : Len(lists[k]) = m})
        others(k) == IF k = 2 THEN "argument 1" ELSE "arguments 1-" \o ToString(k - 1)
    IN  IF \A k \in DOMAIN lists : Len(lists[k]) = m
        THEN None
        ELSE IF j = 1
        THEN LET k == Min({x \in DOMAIN lists : Len(lists[x]) > m})
             IN  Some("zip() argument " \o ToString(k) \o " is longer than " \o others(k))
        ELSE Some("zip() argument " \o ToString(j) \o " is shorter than " \o others(j))

\* list(zip(...)) of equally long lists: one tuple per position
zip_strict(lists) ==
    [i \in 1..Len(lists[1]) |-> [k \in DOMAIN lists |-> lists[k][i]]]

\* random.shuffle: any rearrangement of the positions
ShufflesWithRepeats(n) == [1..n -> 1..n]
Shuffles(n) == {p \in [1..n -> 1..n] : \A a \in 1..n : \A b \in 1..n : p[a] = p[b] => a = b}

\* map(list, zip(*combined)): the five lists again, in the shuffled order
unzip_misaligned(combined) ==
    [k \in 1..5 |-> [i \in 1..Len(combined) |->
        combined[IF k = 1 THEN i ELSE Len(combined) + 1 - i][k]]]
unzip(combined) ==
    [k \in 1..5 |-> [i \in 1..Len(combined) |-> combined[i][k]]]

\* the task dicts built from the (shuffled) lists
BuildTasks(lists) ==
    [i \in 1..Len(lists[1]) |->
        [departure_code    |-> Some("LAX"),
         departure_country |-> Some("USA"),
         arrival_code      |-> lists[1][i],
         arrival_country   |-> lists[2][i],
         start_date        |-> lists[3][i],
         end_date          |-> lists[4][i],
         seat_class        |-> lists[5][i]]]

\* The float d / n (0 < d < n) is the 53-bit binary fraction nearest to the
\* quotient.  BinaryExponent is the number of doublings that bring d to n or
\* above; 52 more bits follow the leading one.
RECURSIVE BinaryExponent(_, _, _)
BinaryExponent(d, n, k) == IF d >= n THEN k ELSE BinaryExponent(2 * d, n, k + 1)

\* (d * 2^e) % n
RECURSIVE ShiftedRemainder(_, _, _)
ShiftedRemainder(d, n, e) ==
    IF e = 0 THEN d % n ELSE ShiftedRemainder((2 * d) % n, n, e - 1)

\* where the float d / n lies relative to the quotient it stands for
FloatQuotient(d, n) ==
    LET r == ShiftedRemainder(d, n, BinaryExponent(d, n, 0) + 52)
    IN  IF r = 0 THEN "exact" ELSE IF 2 * r > n THEN "above" ELSE "below"

\* round(x, 4) of the float x = d / n, in ten-thousandths: the multiple of
\* 0.0001 nearest to the float's exact value, the even one when the float is
\* exactly halfway
round4(d, n) ==
    LET lo  == (10000 * d) \div n
        rem == (10000 * d) % n
    IN  IF 2 * rem < n THEN lo
        ELSE IF 2 * rem > n THEN lo + 1
        ELSE CASE FloatQuotient(d, n) = "exact" -> (IF lo % 2 = 0 THEN lo ELSE lo + 1)
               [] FloatQuotient(d, n) = "above" -> lo + 1
               [] FloatQuotient(d, n) = "below" -> lo

\* GoogleFlightsScraper._calc_price_rel, in ten-thousandths:
\* round(float(price_difference / (price + price_difference)), 4), None unless
\* both operands are present (price >= 1, price_difference >= 0)
_calc_price_rel_truncating(price, price_difference) ==
    IF price_difference # None /\ price # None
    THEN Some((10000 * price_difference[1]) \div (price[1] + price_difference[1]))
    ELSE None
_calc_price_rel(price, price_difference) ==
    IF price_difference # None /\ price # None
    THEN Some(round4(price_difference[1], price[1] + price_difference[1]))
    ELSE None

\* <<price, price_difference>> pairs a successful scrape reads off the page
Fares == {<<900, 100>>, <<800, 200>>, <<700, 300>>}

PricedResult(task, fare) ==
    [ScrapeResult(task, "success") EXCEPT
        !.price = Some(fare[1]),
        !.price_difference = Some(fare[2]),
        !.price_relativity = _calc_price_rel(Some(fare[1]), Some(fare[2]))]

\* How _run_tasks ends for one task of a batch without captcha: a flattened
\* success, a flattened transient failure (second attempt), a generic error.
BatchOutcomes ==
    {[kind |-> "success", fare |-> f] : f \in Fares}
        \cup {[kind |-> "transient_price"], [kind |-> "other"]}

OutcomeRecord(task, outcome) ==
    IF outcome.kind = "success" THEN _flatten_result(PricedResult(task, outcome.fare))
    ELSE IF outcome.kind = "transient_price"
    THEN _flatten_result(ScrapeResult(task, "transient_price"))
    ELSE generic_error_result(task, ExceptionMessage)

OutcomeEvent(outcome) ==
    IF outcome.kind = "success" THEN "returned_ok"
    ELSE IF outcome.kind = "transient_price" THEN "returned_transient"
    ELSE "raised_other"

\* pd.DataFrame(results): one row per record under a RangeIndex, one column
\* per key met in any record, NaN (None) where a record lacks the key
Columns(recs) == UNION {DOMAIN recs[i] : i \in DOMAIN recs}

DataFrame(recs) ==
    [i \in 1..Len(recs) |->
        [index |-> i - 1, row |-> [c \in Columns(recs) |-> Get(recs[i], c)]]]

FrameColumns(frame) == UNION {DOMAIN frame[i].row : i \in DOMAIN frame}

\* the elements of a set of integers, ascending
Ascending(S) ==
    [k \in 1..Cardinality(S) |-> CHOOSE x \in S : Cardinality({y \in S : y < x}) = k - 1]

KeyOf(frame, i) == Get(frame[i].row, "price_relativity")

\* ascending=False: a row may precede another when its key is not smaller
MayPrecedeAscending(a, b) == a <= b
MayPrecede(a, b) == a >= b

\* (the same sort with na_position="first")
sort_values_na_first(frame) ==
    LET n == Len(frame)
        nan_idx == Ascending({i \in 1..n : KeyOf(frame, i) = None})
        non_nan == {i \in 1..n : KeyOf(frame, i) # None}
        m == Cardinality(non_nan)
        indexers == {o \in [1..m -> non_nan] :
                        /\ \A a \in 1..m : \A b \in 1..m : o[a] = o[b] => a = b
                        /\ \A a \in 1..m : \A b \in 1..m :
                              a < b => MayPrecede(KeyOf(frame, o[a])[1], KeyOf(frame, o[b])[1])}
    IN  {[k \in 1..n |-> frame[IF k <= n - m THEN nan_idx[k] ELSE o[k - (n - m)]]] :
            o \in indexers}

\* df.sort_values("price_relativity", ascending=False, na_position="last"),
\* kind left at its default "quicksort": the rows without a key keep their
\* order and go last; the rows with a key come in descending key order, rows
\* of equal key in whichever order the unstable sort leaves them.
sort_values(frame) ==
    LET n == Len(frame)
        nan_idx == Ascending({i \in 1..n : KeyOf(frame, i) = None})
        non_nan == {i \in 1..n : KeyOf(frame, i) # None}
        m == Cardinality(non_nan)
        indexers == {o \in [1..m -> non_nan] :
                        /\ \A a \in 1..m : \A b \in 1..m : o[a] = o[b] => a = b
                        /\ \A a \in 1..m : \A b \in 1..m :
                              a < b => MayPrecede(KeyOf(frame, o[a])[1], KeyOf(frame, o[b])[1])}
    IN  {[k \in 1..n |-> frame[IF k <= m THEN o[k] ELSE nan_idx[k - m]]] : o \in indexers}

\* df.to_csv(output_path, index=False): the rows, without their labels
to_csv(frame) == [k \in 1..Len(frame) |-> frame[k].row]

lists == <<arrival_codes, arrival_countries, start_dates, end_dates, seat_classes>>

\* what scrape_multiple leaves alone once it is called
arguments == <<arrival_codes, arrival_countries, start_dates, end_dates, seat_classes,
               output_path, n_jobs, task_timeout, delay_seconds, delay_jitter, elsewhere>>

\* scrape_multiple is called: any five lists of up to MaxTasks positions,
\* position i of a list holding the i-th route's value; the pacing and
\* timeout arguments at their defaults.
InitMultiple ==
    /\ \E n1 \in 0..MaxTasks : arrival_codes = [i \in 1..n1 |-> MkTask(i).arrival_code]
    /\ \E n2 \in 0..MaxTasks : arrival_countries = [i \in 1..n2 |-> MkTask(i).arrival_country]
    /\ \E n3 \in 0..MaxTasks : start_dates = [i \in 1..n3 |-> MkTask(i).start_date]
    /\ \E n4 \in 0..MaxTasks : end_dates = [i \in 1..n4 |-> MkTask(i).end_date]
    /\ \E n5 \in 0..MaxTasks : seat_classes = [i \in 1..n5 |-> MkTask(i).seat_class]
    /\ output_path \in {None, Some("flights.csv")}
    /\ NothingElse
    /\ sm_pc = "called"
    /\ error = None
    /\ df = <<>>
    /\ csv = None
    /\ tasks = <<>>
    /\ n_jobs = 1
    /\ task_timeout = DEFAULT_TASK_TIMEOUT
    /\ delay_seconds = DEFAULT_DELAY_SECONDS
    /\ delay_jitter = DEFAULT_DELAY_JITTER
    /\ batch_pc = "idle"
    /\ captcha_event = FALSE
    /\ semaphore = 0
    /\ seq_i = 1
    /\ results = <<>>
    /\ sleep_count = 0
    /\ sleep_timer = 0
    /\ pc = <<>>
    /\ calls = <<>>
    /\ last_event = <<>>
    /\ output = <<>>
    /\ overtaken = FALSE

engine == <<batch_pc, captcha_event, semaphore, seq_i, results, sleep_count, sleep_timer,
            pc, calls, last_event, output, overtaken>>

\* await _validate_inputs(...)
ValidateInputs ==
    /\ sm_pc = "called"
    /\ LET raised == _validate_inputs(arrival_codes, arrival_countries, start_dates,
                                      end_dates, seat_classes)
       IN  IF raised # None
           THEN sm_pc' = "raised" /\ error' = raised
           ELSE sm_pc' = "validated" /\ UNCHANGED error
    /\ UNCHANGED <<arguments, tasks, engine, df, csv>>

\* zip, random.shuffle, unzip, and the task list.  zip(strict=True) raises on
\* lists of unequal length; unpacking the unzipped lists raises when there is
\* no position at all.
ShuffleAndBuild ==
    /\ sm_pc = "validated"
    /\ IF ZipStrictError(lists) # None
       THEN sm_pc' = "raised" /\ error' = ZipStrictError(lists) /\ UNCHANGED tasks
       ELSE IF Len(zip_strict(lists)) = 0
       THEN /\ sm_pc' = "raised"
            /\ error' = Some("not enough values to unpack (expected 5, got 0)")
            /\ UNCHANGED tasks
       ELSE /\ \E p \in Shuffles(Len(zip_strict(lists))) :
                  LET combined == [i \in 1..Len(p) |-> zip_strict(lists)[p[i]]]
                  IN  tasks' = BuildTasks(unzip(combined))
            /\ sm_pc' = "shuffled"
            /\ UNCHANGED error
    /\ UNCHANGED <<arguments, engine, df, csv>>

\* results = await _run_tasks(tasks, ...): the sequential run of the batch
\* taken as one step, each task ending in one of BatchOutcomes and its record
\* kept at the task's position.
RunBatch ==
    /\ sm_pc = "shuffled"
    /\ \E outcome \in [1..Len(tasks) -> BatchOutcomes] :
          /\ results' = [i \in 1..Len(tasks) |-> OutcomeRecord(tasks[i], outcome[i])]
          /\ last_event' = [i \in 1..Len(tasks) |-> OutcomeEvent(outcome[i])]
          /\ calls' = [i \in 1..Len(tasks) |->
                          IF outcome[i].kind = "transient_price" THEN 2 ELSE 1]
    /\ output' = results'
    /\ pc' = [i \in 1..Len(tasks) |-> "done"]
    /\ seq_i' = Len(tasks) + 1
    /\ sleep_count' = Len(tasks) - 1
    /\ batch_pc' = "returned"
    /\ sm_pc' = "ran"
    /\ UNCHANGED <<arguments, tasks, captcha_event, semaphore, sleep_timer, overtaken,
                   error, df, csv>>

\* pd.DataFrame(results), the sort when the column exists, to_csv when a path
\* was given, return df
Aggregate ==
    /\ sm_pc = "ran"
    /\ \E frame \in (IF "price_relativity" \in FrameColumns(DataFrame(output))
                     THEN sort_values(DataFrame(output))
                     ELSE {DataFrame(output)}) :
          /\ df' = frame
          /\ csv' = IF output_path # None THEN Some(to_csv(frame)) ELSE None
    /\ sm_pc' = "returned"
    /\ UNCHANGED <<arguments, tasks, engine, error>>

NextMultiple ==
    \/ ValidateInputs
    \/ ShuffleAndBuild
    \/ RunBatch
    \/ Aggregate

SpecMultiple == InitMultiple /\ [][NextMultiple]_vars

\* ------------------------------------------------- claims: scrape_multiple
\* the lists (2..5) whose length differs from that of arrival_codes
Mismatching == {k \in 2..5 : Len(lists[k]) # Len(lists[1])}

NothingScheduled ==
    /\ batch_pc = "idle"
    /\ tasks = <<>>
    /\ results = <<>>
    /\ \A i \in DOMAIN calls : calls[i] = 0
    /\ sleep_count = 0
    /\ csv = None

\* C11: when arrival_countries, start_dates, end_dates or seat_classes differs
\* in length from arrival_codes, scrape_multiple never gets past validation:
\* it raises the ValueError that names the first such list (in that order),
\* no task was built, no collaborator was called, no sleep was started and no
\* file was written.
C11_ValidationFirst ==
    (sm_pc # "none" /\ Mismatching # {}) =>
        /\ sm_pc \in {"called", "raised"}
        /\ NothingScheduled
        /\ sm_pc = "raised" =>
              error = Some("arrival_codes and " \o ListNames[Min(Mismatching)]
                               \o " must have same length")

C11_Witness ==
    /\ sm_pc = "raised"
    /\ Mismatching = {4, 5}
    /\ error = Some("arrival_codes and end_dates must have same length")
    /\ NothingScheduled

\* the price_relativity of the records in scheduler order / in returned order
Relativities(recs) == [i \in 1..Len(recs) |-> Get(recs[i], "price_relativity")]
ReturnedRelativities == [k \in 1..Len(df) |-> Get(df[k].row, "price_relativity")]

\* C13: the returned collection is in descending order of price_relativity
\* and no record without a price_relativity precedes one that has it,
\* wherever the scheduler produced it; relativities [0.1, 0.3, 0.2] are
\* returned as [0.3, 0.2, 0.1].
C13_SortedDescending ==
    sm_pc = "returned" =>
        /\ \A a \in 1..Len(df) : \A b \in 1..Len(df) :
              a < b =>
                  /\ ReturnedRelativities[a] = None => ReturnedRelativities[b] = None
                  /\ (ReturnedRelativities[a] # None /\ ReturnedRelativities[b] # None) =>
                        ReturnedRelativities[a][1] >= ReturnedRelativities[b][1]
        /\ Relativities(output) = <<Some(1000), Some(3000), Some(2000)>> =>
              ReturnedRelativities = <<Some(3000), Some(2000), Some(1000)>>

C13_Witness ==
    /\ sm_pc = "returned"
    /\ Len(output) = 3
    /\ "price_relativity" \notin DOMAIN output[1]
    /\ Relativities(output) = <<None, Some(1000), Some(3000)>>
    /\ ReturnedRelativities = <<Some(3000), Some(1000), None>>

\* C14: the sort is stable: two returned rows with equal price_relativity,
\* or both without one, are in the order in which the scheduler produced
\* their records (the order of their row labels).
C14_StableSort ==
    sm_pc = "returned" =>
        \A a \in 1..Len(df) : \A b \in 1..Len(df) :
            (a < b /\ ReturnedRelativities[a] = ReturnedRelativities[b]) =>
                df[a].index < df[b].index

\* row describes position j of the caller's lists
DescribesInput(row, j) ==
    /\ Get(row, "arrival_airport") = arrival_codes[j]
    /\ Get(row, "arrival_country") = arrival_countries[j]
    /\ Get(row, "departure_date") = start_dates[j]
    /\ Get(row, "return_date") = end_dates[j]
    /\ Get(row, "seat_class") = seat_classes[j]

\* C15: the returned collection is a rearrangement of the records the
\* scheduler produced: its row labels are exactly those of the records, each
\* row holds the record of its label, every position of the caller's lists is
\* described by exactly one row, and there are as many rows as positions.
\* The csv file, when written, holds the same rows.
C15_Permutation ==
    sm_pc = "returned" =>
        /\ Len(df) = Len(arrival_codes)
        /\ Len(df) = Len(output)
        /\ {df[k].index : k \in 1..Len(df)} = 0..(Len(output) - 1)
        /\ \A k \in 1..Len(df) :
              /\ df[k].index + 1 \in 1..Len(output)
              /\ \A c \in DOMAIN output[df[k].index + 1] :
                    Get(df[k].row, c) = output[df[k].index + 1][c]
        /\ \A j \in 1..Len(arrival_codes) :
              Cardinality({k \in 1..Len(df) : DescribesInput(df[k].row, j)}) = 1
        /\ csv # None => csv[1] = [k \in 1..Len(df) |-> df[k].row]

C15_Witness ==
    /\ sm_pc = "returned"
    /\ Len(arrival_codes) = 3
    /\ Len(df) = 3
    /\ ~DescribesInput(output[1], 1)
    /\ df[1].index # 0
    /\ \E k \in 1..3 : Get(df[k].row, "status") = Some("Error: Network error")
    /\ csv # None

\* C16 (as stated): the returned collection has the length and the order of
\* the caller's lists: the row at position i describes position i of the lists.
C16_SameOrder ==
    sm_pc = "returned" =>
        /\ Len(df) = Len(arrival_codes)
        /\ \A i \in 1..Len(df) : i \in 1..Len(arrival_codes) /\ DescribesInput(df[i].row, i)

\* C16 (amended): the returned collection has the length of the caller's
\* lists, and the row at each position describes some position j of the
\* lists, its arrival code, country, dates and seat class all taken from that
\* one j; j need not be the row's position.
C16_SameLengthAligned ==
    sm_pc = "returned" =>
        /\ Len(df) = Len(arrival_codes)
        /\ \A i \in 1..Len(df) : \E j \in 1..Len(arrival_codes) : DescribesInput(df[i].row, j)

C16_Witness ==
    /\ sm_pc = "returned"
    /\ Len(arrival_codes) = 3
    /\ DescribesInput(df[1].row, 3)
    /\ DescribesInput(df[2].row, 1)
    /\ DescribesInput(df[3].row, 2)
    /\ DescribesInput(output[1], 2)

\* ------------------------------------------------- functions run on their own
\* _run_tasks and scrape_multiple are not running
NoRunTasks ==
    /\ NoCaller
    /\ tasks = <<>>
    /\ n_jobs = 1
    /\ task_timeout = DEFAULT_TASK_TIMEOUT
    /\ delay_seconds = DEFAULT_DELAY_SECONDS
    /\ delay_jitter = DEFAULT_DELAY_JITTER
    /\ batch_pc = "idle"
    /\ captcha_event = FALSE
    /\ semaphore = 0
    /\ seq_i = 1
    /\ results = <<>>
    /\ sleep_count = 0
    /\ sleep_timer = 0
    /\ pc = <<>>
    /\ calls = <<>>
    /\ last_event = <<>>
    /\ output = <<>>
    /\ overtaken = FALSE

main == <<tasks, n_jobs, task_timeout, delay_seconds, delay_jitter, engine, caller>>

\* ------------------------------------------- several _run_tasks invocations
\* Two callers invoke _run_tasks (n_jobs = 1) on one event loop, each again
\* after it has returned.  Every invocation creates its own asyncio.Event;
\* batches.events holds the Event objects, batches.of the loop of each caller:
\* state, number of tasks n, position i, statuses of the records so far, and
\* two history flags (invoked before; some invocation met a captcha).
BatchIds == {1, 2}
BatchSizes == {1, 2}

\* the Event object the invocation of caller b works with
EventObjectShared(b) == 1
EventObject(b) == b

InitBatches ==
    /\ NoRunTasks
    /\ NoFlatten
    /\ NoScrape
    /\ NoRelativity
    /\ NoBudget
    /\ \E size \in [BatchIds -> BatchSizes] :
          batches = [of |-> [b \in BatchIds |->
                                [state |-> "idle", n |-> size[b], i |-> 1,
                                 statuses |-> <<>>, rerun |-> FALSE,
                                 seen_captcha |-> FALSE]],
                     events |-> [e \in BatchIds |-> FALSE]]

\* _run_tasks is called: captcha_event = asyncio.Event(), results = []
CallRunTasks(b) ==
    /\ batches.of[b].state \in {"idle", "returned"}
    /\ batches' = [batches EXCEPT
                      !.of[b].state = "running",
                      !.of[b].i = 1,
                      !.of[b].statuses = <<>>,
                      !.of[b].rerun = (batches.of[b].state = "returned"),
                      !.events[EventObject(b)] = FALSE]
    /\ UNCHANGED <<main, flatten_frame, scrape_frame, relativity_frame, budget_frame>>

\* loop head of _run_sequential: Cancelled record or the task is awaited
BatchStep(b) ==
    /\ batches.of[b].state = "running"
    /\ batches.of[b].i <= batches.of[b].n
    /\ IF SeqSkips(batches.events[EventObject(b)])
       THEN batches' = [batches EXCEPT
                           !.of[b].statuses = Append(@, CancelledStatus),
                           !.of[b].i = @ + 1]
       ELSE batches' = [batches EXCEPT !.of[b].state = "awaiting"]
    /\ UNCHANGED <<main, flatten_frame, scrape_frame, relativity_frame, budget_frame>>

\* the awaited task returns its record; its collaborator returned or raised
\* the captcha
BatchTaskEnds(b, exc) ==
    /\ batches.of[b].state = "awaiting"
    /\ batches' = [batches EXCEPT
                      !.of[b].state = "running",
                      !.of[b].i = @ + 1,
                      !.of[b].statuses =
                          Append(@, IF exc = "captcha" THEN CaptchaStatus
                                                       ELSE StatusOf("success")),
                      !.of[b].seen_captcha = (@ \/ exc = "captcha"),
                      !.events[EventObject(b)] = EventAfterRaise(@, exc)]
    /\ UNCHANGED <<main, flatten_frame, scrape_frame, relativity_frame, budget_frame>>

\* return results
BatchReturn(b) ==
    /\ batches.of[b].state = "running"
    /\ batches.of[b].i > batches.of[b].n
    /\ batches' = [batches EXCEPT !.of[b].state = "returned"]
    /\ UNCHANGED <<main, flatten_frame, scrape_frame, relativity_frame, budget_frame>>

NextBatches ==
    \/ \E b \in BatchIds : CallRunTasks(b)
    \/ \E b \in BatchIds : BatchStep(b)
    \/ \E b \in BatchIds : \E exc \in {"none", "captcha"} : BatchTaskEnds(b, exc)
    \/ \E b \in BatchIds : BatchReturn(b)

SpecBatches == InitBatches /\ [][NextBatches]_vars

\* C24: the signal belongs to one invocation of _run_tasks: an invocation
\* that has not produced a record yet has its signal unset, and a task is
\* recorded as Cancelled only after a captcha record of the same invocation,
\* whatever other invocations, earlier or interleaved, have met.
C24_SignalPerBatch ==
    \A b \in BatchIds :
        /\ (batches.of[b].state \in {"running", "awaiting"} /\ batches.of[b].statuses = <<>>) =>
              ~batches.events[b]
        /\ \A k \in 1..Len(batches.of[b].statuses) :
              batches.of[b].statuses[k] = "Cancelled: CAPTCHA detected in earlier task" =>
                  \E j \in 1..(k - 1) :
                      batches.of[b].statuses[j] = "Error: CAPTCHA detected"

\* Caller 1 met a captcha in an earlier invocation and has run again without
\* one, while caller 2's invocation, interleaved, met a captcha of its own.
C24_Witness ==
    /\ batches.of[1].rerun
    /\ batches.of[1].seen_captcha
    /\ batches.of[1].state = "returned"
    /\ batches.of[1].statuses = <<"Ran successfully.", "Ran successfully.">>
    /\ batches.of[2].state = "running"
    /\ ~batches.of[2].rerun
    /\ batches.of[2].statuses = <<"Error: CAPTCHA detected",
                                  "Cancelled: CAPTCHA detected in earlier task">>

\* ------------------------------------------------ _flatten_result on its own
\* flatten_arg holds the dict handed to _flatten_result, flat what it returns.
UnprefixedFields ==
    {"price", "price_classification", "price_difference", "price_relativity",
     "status", "url", "time"}

CompleteResult ==
    [inputs |-> [departure_airport |-> Some("LAX"), arrival_airport |-> Some("SFO")],
     departure_flight |-> [airline |-> Some("United"),
                           departure_airport |-> Some("LAX"),
                           connection_airports |-> Some(<<"DFW", "ORD">>),
                           layover_durations |-> Some(<<"2 hr", "1 hr 30 min">>)],
     return_flight |-> [airline |-> Some("Delta"),
                        connection_airports |-> Some(<<>>)],
     price |-> Some(250),
     price_classification |-> Some("low"),
     price_difference |-> Some(50),
     price_relativity |-> Some(2000),
     status |-> Some("Ran successfully."),
     url |-> Some("https://example.com"),
     time |-> Some(7)]

\* the fields a result may carry with the value None, as the structure
\* scrape_flight starts from does
NoneFields == {"price", "status"}

\* partial results: any of the sections and fields may be missing, a section
\* may be empty, a field may be None
PartialResults ==
    { [k \in keys |->
          IF k \in emptied THEN (IF k \in UnprefixedFields THEN None ELSE EmptyDict)
                           ELSE CompleteResult[k]] :
        keys \in SUBSET DOMAIN CompleteResult,
        emptied \in SUBSET ((DOMAIN CompleteResult \ UnprefixedFields) \cup NoneFields) }

InitFlatten ==
    /\ NoRunTasks
    /\ NoBatches
    /\ NoScrape
    /\ NoRelativity
    /\ NoBudget
    /\ flatten_arg \in {Some(r) : r \in PartialResults}
    /\ flat = None

Flatten ==
    /\ flat = None
    /\ flat' = Some(_flatten_result(flatten_arg[1]))
    /\ UNCHANGED <<main, batches, flatten_arg, scrape_frame, relativity_frame, budget_frame>>

NextFlatten == Flatten

SpecFlatten == InitFlatten /\ [][NextFlatten]_vars

\* C27: every field k of 'inputs' appears under k, every field k of
\* 'departure_flight' under 'departure_'+k, every field k of 'return_flight'
\* under 'return_'+k, each with the value it had (a list stays the same
\* list), and price, price_classification, price_difference,
\* price_relativity, status and url are copied unprefixed.
C27_FlattenMapping ==
    flat # None =>
        LET result == flatten_arg[1]
            f == flat[1]
        IN  /\ \A k \in DOMAIN Section(result, "inputs") :
                   k \in DOMAIN f /\ f[k] = result.inputs[k]
            /\ \A k \in DOMAIN Section(result, "departure_flight") :
                   /\ ("departure_" \o k) \in DOMAIN f
                   /\ f["departure_" \o k] = result.departure_flight[k]
            /\ \A k \in DOMAIN Section(result, "return_flight") :
                   /\ ("return_" \o k) \in DOMAIN f
                   /\ f["return_" \o k] = result.return_flight[k]
            /\ \A k \in {"price", "price_classification", "price_difference",
                         "price_relativity", "status", "url"} \cap DOMAIN result :
                   k \in DOMAIN f /\ f[k] = result[k]

C27_Witness ==
    /\ flat # None
    /\ flatten_arg = Some(CompleteResult)
    /\ flat[1].departure_airport = Some("LAX")
    /\ flat[1].departure_departure_airport = Some("LAX")
    /\ flat[1].departure_connection_airports = Some(<<"DFW", "ORD">>)
    /\ flat[1].return_airline = Some("Delta")
    /\ flat[1].price = Some(250)

\* C28: for any partial result the flat dict has exactly the keys of the
\* sections that are there plus price, price_classification,
\* price_difference, price_relativity, status, url and time, and each of
\* these seven the result lacks is None.
C28_FlattenTotal ==
    flat # None =>
        LET result == flatten_arg[1]
            f == flat[1]
        IN  /\ DOMAIN f =
                   (DOMAIN Section(result, "inputs"))
                   \cup {"departure_" \o k : k \in DOMAIN Section(result, "departure_flight")}
                   \cup {"return_" \o k : k \in DOMAIN Section(result, "return_flight")}
                   \cup {"price", "price_classification", "price_difference",
                         "price_relativity", "status", "url", "time"}
            /\ \A k \in {"price", "price_classification", "price_difference",
                         "price_relativity", "status", "url", "time"} \ DOMAIN result :
                   f[k] = None

\* the test's record {"price": ..., "status": ...} and nothing else
C28_Witness ==
    /\ flat # None
    /\ DOMAIN flatten_arg[1] = {"price", "status"}
    /\ flatten_arg[1].price = Some(250)
    /\ DOMAIN flat[1] = UnprefixedFields
    /\ flat[1].price = Some(250)
    /\ flat[1].url = None
    /\ flat[1].time = None

\* ------------------------------------------------ _calc_price_rel on its own
\* prices and price differences read off a page, with the pairs whose
\* quotient lies halfway between two multiples of 0.0001: 1/32 and 3/32 are
\* floats, 157/160 and 159/160 are not
PriceValues == {1, 2, 3, 29, 31, 200, 300, 900}
DifferenceValues == {0, 1, 2, 3, 31, 50, 100, 157, 159}

InitRelativity ==
    /\ NoRunTasks
    /\ NoBatches
    /\ NoFlatten
    /\ NoScrape
    /\ NoBudget
    /\ relativity_args \in
          [price : {None} \cup {Some(p) : p \in PriceValues},
           price_difference : {None} \cup {Some(d) : d \in DifferenceValues}]
    /\ relativity = <<>>

CalcPriceRel ==
    /\ relativity = <<>>
    /\ relativity' = <<_calc_price_rel(relativity_args.price,
                                       relativity_args.price_difference)>>
    /\ UNCHANGED <<main, batches, flatten_frame, scrape_frame, relativity_args, budget_frame>>

NextRelativity == CalcPriceRel

SpecRelativity == InitRelativity /\ [][NextRelativity]_vars

\* C26: with a price P and a price difference D the relativity is the
\* multiple of 0.0001 nearest to D / (P + D) (0.2 for 200 and 50, 0.0 for a
\* difference of 0); it is absent whenever P or D is absent.
C26_PriceRelativity ==
    relativity # <<>> =>
        LET P == relativity_args.price
            D == relativity_args.price_difference
            r == relativity[1]
        IN  IF P # None /\ D # None
            THEN /\ r # None
                 /\ 2 * r[1] * (P[1] + D[1]) - 2 * 10000 * D[1] <= P[1] + D[1]
                 /\ 2 * 10000 * D[1] - 2 * r[1] * (P[1] + D[1]) <= P[1] + D[1]
                 /\ (D[1] = 0 => r[1] = 0)
                 /\ (P[1] = 200 /\ D[1] = 50 => r[1] = 2000)
            ELSE r = None

\* 200 and 50 give 0.2
C26_Witness ==
    /\ relativity_args = [price |-> Some(200), price_difference |-> Some(50)]
    /\ relativity = <<Some(2000)>>

\* the halfway quotients: 1/32 -> 0.0312, 3/32 -> 0.0938, 157/160 -> 0.9812,
\* 159/160 -> 0.9938, as round() returns them
HalfwayQuotients ==
    relativity # <<>> =>
        LET P == relativity_args.price
            D == relativity_args.price_difference
        IN  /\ (P = Some(31) /\ D = Some(1)) => relativity = <<Some(312)>>
            /\ (P = Some(29) /\ D = Some(3)) => relativity = <<Some(938)>>
            /\ (P = Some(3) /\ D = Some(157)) => relativity = <<Some(9812)>>
            /\ (P = Some(1) /\ D = Some(159)) => relativity = <<Some(9938)>>
            /\ (P = Some(1) /\ D = Some(2)) => relativity = <<Some(6667)>>

\* --------------------------------------------------- scrape_flight on its own
\* One GoogleFlightsScraper instance; scrape_flight is called on it up to
\* MaxCalls times, each call after the one before has returned (the retry of
\* _scrape_task reuses the instance).  A browser object is Some(c): the one
\* setup_browser created during call c.  closes[k][c] counts the close() or
\* stop() calls it has received.
HandleNames == {"page", "context", "browser", "playwright"}

max_retries == 3

SuccessStatus == "Ran successfully."

ScrapeErrorStatus(msg) == "Error: " \o msg

\* f"No {key.replace('_', ' ')} found."
NoFlightMessage(key) ==
    "No " \o (IF key = "departure_flight" THEN "departure flight" ELSE "return flight")
          \o " found."

\* f"Error finding {key}: {str(e)}"
FindErrorMessage(key, msg) == "Error finding " \o key \o ": " \o msg

FlightDetails(key) ==
    [airline |-> Some(IF key = "departure_flight" THEN "United" ELSE "Delta"),
     connection_airports |-> Some(<<>>)]

\* the exceptions the except clause of scrape_flight turns into a status:
\* every Exception but CaptchaDetectedError, which leaves the function
Caught(exc) == exc # "captcha"

\* an exception is raised inside the try block
AfterRaiseAlwaysCaught(frame, exc, msg) ==
    [frame EXCEPT !.status = Some(ScrapeErrorStatus(msg)),
                  !.raised = Some(exc),
                  !.pc = "finally"]
AfterRaise(frame, exc, msg) ==
    IF Caught(exc)
    THEN [frame EXCEPT !.status = Some(ScrapeErrorStatus(msg)),
                       !.raised = Some(exc),
                       !.pc = "finally"]
    ELSE [frame EXCEPT !.pending = Some(exc),
                       !.raised = Some(exc),
                       !.pc = "finally"]

\* the objects the finally block closes
ToCloseButPlaywright(s) == {k \in HandleNames \ {"playwright"} : s[k] # None}
ToClose(s) == {k \in HandleNames : s[k] # None}

\* history of the latest _find_flight_with_retry call: its key, the searches
\* made, the sleeps taken, the messages of the exceptions caught, and
\* <<value>> once it has returned value
NoFind == [key |-> "none", calls |-> 0, sleeps |-> 0, errors |-> <<>>, returned |-> <<>>]

IdleFrame ==
    [pc |-> "none", call |-> 0, opened |-> FALSE, attempt |-> 0,
     result |-> EmptyDict, status |-> None, pending |-> None, raised |-> None,
     export_path |-> None, returned |-> None, exported |-> FALSE, find |-> NoFind]

InitScrape ==
    /\ NoRunTasks
    /\ NoBatches
    /\ NoFlatten
    /\ NoRelativity
    /\ NoBudget
    /\ scraper = [k \in HandleNames |-> None]
    /\ closes = [k \in HandleNames |-> [c \in 1..MaxCalls |-> 0]]
    /\ sf = IdleFrame

\* scrape_flight(...) is entered: result = self._create_result_structure(...)
CallScrapeFlight(path) ==
    /\ sf.pc \in {"none", "returned"}
    /\ sf.call < MaxCalls
    /\ sf' = [IdleFrame EXCEPT !.pc = "validate",
                               !.call = sf.call + 1,
                               !.result = _create_result_structure(MkTask(1)),
                               !.export_path = path]
    /\ UNCHANGED <<main, batches, flatten_frame, relativity_frame, budget_frame, scraper, closes>>

\* self._validate_inputs(...)
ValidateScrape(ok) ==
    /\ sf.pc = "validate"
    /\ sf' = IF ok THEN [sf EXCEPT !.pc = "setup"]
                   ELSE AfterRaise(sf, "other", "Invalid seat class")
    /\ UNCHANGED <<main, batches, flatten_frame, relativity_frame, budget_frame, scraper, closes>>

\* self.playwright, self.browser, self.context, self.page = setup_browser(...)
SetupBrowser(ok) ==
    /\ sf.pc = "setup"
    /\ IF ok
       THEN /\ scraper' = [k \in HandleNames |-> Some(sf.call)]
            /\ sf' = [sf EXCEPT !.pc = "goto", !.opened = TRUE]
       ELSE /\ scraper' = scraper
            /\ sf' = AfterRaise(sf, "other", ExceptionMessage)
    /\ UNCHANGED <<main, batches, flatten_frame, relativity_frame, budget_frame, closes>>

\* self.page.goto(...)
Goto(ok) ==
    /\ sf.pc = "goto"
    /\ sf' = IF ok THEN [sf EXCEPT !.pc = "captcha_check"]
                   ELSE AfterRaise(sf, "other", ExceptionMessage)
    /\ UNCHANGED <<main, batches, flatten_frame, relativity_frame, budget_frame, scraper, closes>>

\* self._check_for_captcha() raises CaptchaDetectedError when the page that
\* was loaded is a captcha page
CheckForCaptcha(detected) ==
    /\ sf.pc = "captcha_check"
    /\ sf' = IF detected THEN AfterRaise(sf, "captcha", "CAPTCHA detected")
                         ELSE [sf EXCEPT !.pc = "fill_form"]
    /\ UNCHANGED <<main, batches, flatten_frame, relativity_frame, budget_frame, scraper, closes>>

\* self._fill_search_form(...)
FillSearchForm(ok) ==
    /\ sf.pc = "fill_form"
    /\ sf' = IF ok THEN [sf EXCEPT !.pc = "departure_flight", !.attempt = 0]
                   ELSE AfterRaise(sf, "other", "Error entering departure date:")
    /\ UNCHANGED <<main, batches, flatten_frame, relativity_frame, budget_frame, scraper, closes>>

\* what find_and_select_best_flight, extract_flight_details or click raise
FindExceptionMessages == {ExceptionMessage, "Timeout 30000ms exceeded."}

\* if attempt == max_retries - 1
LastAttemptEarly(attempt) == attempt = max_retries - 2
LastAttempt(attempt) == attempt = max_retries - 1

\* one round of the loop of _find_flight_with_retry for sf.pc, the key;
\* _select_best_flights returns its message as the status on failure
FindFlight(outcome) ==
    /\ sf.pc \in {"departure_flight", "return_flight"}
    /\ \E msg \in FindExceptionMessages :
       LET key == sf.pc
           found == IF outcome \in {"found", "click_raises"}
                    THEN [sf.result EXCEPT ![key] = FlightDetails(key)]
                    ELSE sf.result
           log == IF sf.attempt = 0 THEN [NoFind EXCEPT !.key = key] ELSE sf.find
           tried == [log EXCEPT !.calls = @ + 1]
           caught == [tried EXCEPT !.errors = Append(@, msg)]
       IN  sf' =
             CASE outcome = "found" ->
                    [sf EXCEPT !.result = found,
                               !.attempt = 0,
                               !.find = [tried EXCEPT !.returned = <<None>>],
                               !.pc = IF key = "departure_flight" THEN "return_flight"
                                                                  ELSE "price"]
               [] outcome = "none" ->
                    [sf EXCEPT !.status = Some(NoFlightMessage(key)),
                               !.find = [tried EXCEPT
                                            !.returned = <<Some(NoFlightMessage(key))>>],
                               !.pc = "relativity"]
               [] outcome \in {"find_raises", "click_raises"} ->
                    IF LastAttempt(sf.attempt)
                    THEN [sf EXCEPT !.result = found,
                                    !.status = Some(FindErrorMessage(key, msg)),
                                    !.find = [caught EXCEPT
                                                 !.returned = <<Some(FindErrorMessage(key, msg))>>],
                                    !.pc = "relativity"]
                    ELSE \* time.sleep(sleep_s), next round
                         [sf EXCEPT !.result = found,
                                    !.attempt = @ + 1,
                                    !.find = [caught EXCEPT !.sleeps = @ + 1]]
    /\ UNCHANGED <<main, batches, flatten_frame, relativity_frame, budget_frame, scraper, closes>>

\* result["price"] = extract_final_price(...); result["url"] = self._page.url;
\* return result, "Ran successfully."
ExtractFinalPrice(price) ==
    /\ sf.pc = "price"
    /\ sf' = IF price = "raises"
             THEN AfterRaise(sf, "other", ExceptionMessage)
             ELSE [sf EXCEPT !.result.price = price,
                             !.result.url = Some("https://www.google.com/travel/flights/booking"),
                             !.status = Some(SuccessStatus),
                             !.pc = "relativity"]
    /\ UNCHANGED <<main, batches, flatten_frame, relativity_frame, budget_frame, scraper, closes>>

\* if status == "Ran successfully.": extract_price_relativity(...);
\* result["price_relativity"] = self._calc_price_rel(...)
PriceRelativity(found) ==
    /\ sf.pc = "relativity"
    /\ sf.status # Some(SuccessStatus) => found = "skipped"
    /\ sf.status = Some(SuccessStatus) => found # "skipped"
    /\ sf' =
         IF found = "raises"
         THEN AfterRaise(sf, "other", ExceptionMessage)
         ELSE LET classification == CASE found = "low"     -> Some("low")
                                      [] found = "typical" -> Some("typical")
                                      [] OTHER -> sf.result.price_classification
                  difference == CASE found = "low"     -> Some(50)
                                  [] found = "typical" -> Some(0)
                                  [] found = "nothing" -> None
                                  [] OTHER -> sf.result.price_difference
              IN  [sf EXCEPT !.result.price_classification = classification,
                             !.result.price_difference = difference,
                             !.result.price_relativity =
                                 _calc_price_rel(sf.result.price, difference),
                             !.pc = "finally"]
    /\ UNCHANGED <<main, batches, flatten_frame, relativity_frame, budget_frame, scraper, closes>>

\* finally: close whatever of page, context, browser, playwright is set
Finally ==
    /\ sf.pc = "finally"
    /\ closes' = [k \in HandleNames |->
                     IF k \in ToClose(scraper)
                     THEN [closes[k] EXCEPT ![scraper[k][1]] = @ + 1]
                     ELSE closes[k]]
    /\ sf' = [sf EXCEPT !.pc = "cleaned"]
    /\ UNCHANGED <<main, batches, flatten_frame, relativity_frame, budget_frame, scraper>>

\* result["status"] = status; export if a path was given; return result
ReturnResult ==
    /\ sf.pc = "cleaned"
    /\ sf.pending = None
    /\ sf' = [sf EXCEPT !.result.status = sf.status,
                        !.exported = (sf.export_path # None),
                        !.returned = Some([sf.result EXCEPT !.status = sf.status]),
                        !.pc = "returned"]
    /\ UNCHANGED <<main, batches, flatten_frame, relativity_frame, budget_frame, scraper, closes>>

\* the exception that was not caught leaves scrape_flight
Propagate ==
    /\ sf.pc = "cleaned"
    /\ sf.pending # None
    /\ sf' = [sf EXCEPT !.pc = "raised"]
    /\ UNCHANGED <<main, batches, flatten_frame, relativity_frame, budget_frame, scraper, closes>>

NextScrape ==
    \/ \E path \in {None, Some("out.json")} : CallScrapeFlight(path)
    \/ \E ok \in BOOLEAN : ValidateScrape(ok)
    \/ \E ok \in BOOLEAN : SetupBrowser(ok)
    \/ \E ok \in BOOLEAN : Goto(ok)
    \/ \E detected \in BOOLEAN : CheckForCaptcha(detected)
    \/ \E ok \in BOOLEAN : FillSearchForm(ok)
    \/ \E outcome \in {"found", "none", "find_raises", "click_raises"} : FindFlight(outcome)
    \/ \E price \in {None, Some(200), Some(300)} : ExtractFinalPrice(price)
    \/ ExtractFinalPrice("raises")
    \/ \E found \in {"skipped", "nothing", "low", "typical", "raises"} : PriceRelativity(found)
    \/ Finally
    \/ ReturnResult
    \/ Propagate

SpecScrape == InitScrape /\ [][NextScrape]_vars

\* C25: every record scrape_flight returns with the status 'Ran successfully.'
\* has a price.
C25_SuccessHasPrice ==
    (sf.returned # None /\ sf.returned[1].status = Some("Ran successfully.")) =>
        sf.returned[1].price # None

SearchGaveUp ==
    /\ sf.pc = "returned"
    /\ sf.raised = None
    /\ sf.status # Some("Ran successfully.")

\* the browser objects of the current call have each been closed once
ClosedOnce == \A k \in HandleNames : closes[k][sf.call] = 1

C30_FormFailureReported ==
    /\ sf.pc = "returned"
    /\ sf.opened
    /\ ClosedOnce
    /\ sf.returned[1].status = Some("Error: Error entering departure date:")

\* ------------------------- _scrape_task_with_timeout timed, one task at a time
\* Time is counted in whole seconds from the moment asyncio.wait_for is
\* entered.  A scrape_flight call takes any number of seconds; the retry delay
\* max(0.0, 5 + random.uniform(-1, 1)) lasts 4 to 6 seconds.
BudgetTimeouts == {3, 8, 12}

RetryDelays == {4, 5, 6}

\* (a deadline counted anew from the start of each scrape_flight call)
DeadlineReachedPerAttempt(frame) == frame.elapsed - frame.attempt_started >= frame.task_timeout

\* asyncio.wait_for(..., timeout=task_timeout): the deadline lies task_timeout
\* seconds after the entry, whatever _scrape_task is doing by then
DeadlineReached(frame) == frame.elapsed >= frame.task_timeout

WaitForInFlight == wfor.pc \in {"attempt1", "retry_sleep", "attempt2"}

InitBudget ==
    /\ NoRunTasks
    /\ NoBatches
    /\ NoFlatten
    /\ NoScrape
    /\ NoRelativity
    /\ wfor \in [pc : {"called"},
                 task : {MkTask(1)},
                 task_timeout : BudgetTimeouts,
                 captcha_event : {FALSE},
                 elapsed : {0},
                 attempt_started : {0},
                 sleep_left : {0},
                 result : {None},
                 ended_by : {"none"},
                 ended_in : {"none"},
                 record : {None}]

\* task_copy = task.copy(); wait_for starts _scrape_task, which constructs the
\* scraper and calls scrape_flight
EnterWaitFor ==
    /\ wfor.pc = "called"
    /\ wfor' = [wfor EXCEPT !.pc = "attempt1"]
    /\ UNCHANGED <<main, batches, flatten_frame, scrape_frame, relativity_frame>>

\* a second passes while _scrape_task is awaiting a call or the retry delay
Tick ==
    /\ WaitForInFlight
    /\ ~DeadlineReached(wfor)
    /\ wfor.pc = "retry_sleep" => wfor.sleep_left > 0
    /\ wfor' = [wfor EXCEPT !.elapsed = @ + 1,
                            !.sleep_left = IF wfor.pc = "retry_sleep" THEN @ - 1 ELSE @]
    /\ UNCHANGED <<main, batches, flatten_frame, scrape_frame, relativity_frame>>

\* scrape_flight returns a dict before the deadline has fired: a first result
\* with a transient marker starts the retry delay, any other result is
\* flattened and returned through wait_for
ScrapeFlightReturns(kind) ==
    /\ wfor.pc \in {"attempt1", "attempt2"}
    /\ LET result == ScrapeResult(task_copy(wfor.task), kind)
       IN  IF wfor.pc = "attempt1" /\ NeedsRetry(result)
           THEN \E delay \in RetryDelays :
                    wfor' = [wfor EXCEPT !.pc = "retry_sleep",
                                         !.result = Some(result),
                                         !.sleep_left = delay]
           ELSE wfor' = [wfor EXCEPT !.pc = "returned",
                                     !.result = Some(result),
                                     !.ended_by = "result",
                                     !.ended_in = wfor.pc,
                                     !.record = Some(_flatten_result(result))]
    /\ UNCHANGED <<main, batches, flatten_frame, scrape_frame, relativity_frame>>

\* await asyncio.sleep(...) is over: result = await scraper.scrape_flight(**task)
RetryDelayOver ==
    /\ wfor.pc = "retry_sleep"
    /\ wfor.sleep_left = 0
    /\ wfor' = [wfor EXCEPT !.pc = "attempt2", !.attempt_started = wfor.elapsed]
    /\ UNCHANGED <<main, batches, flatten_frame, scrape_frame, relativity_frame>>

\* (a retry whose exceptions were swallowed, the first result being kept)
ScrapeFlightRaisesRetrySwallowed(exc) ==
    /\ wfor.pc \in {"attempt1", "attempt2"}
    /\ wfor' = [wfor EXCEPT !.pc = "returned",
                            !.captcha_event = IF wfor.pc = "attempt2" THEN @
                                              ELSE EventAfterRaise(@, exc),
                            !.ended_by = IF exc = "captcha" THEN "captcha" ELSE "exception",
                            !.ended_in = wfor.pc,
                            !.record = IF wfor.pc = "attempt2"
                                       THEN Some(_flatten_result(wfor.result[1]))
                                       ELSE Some(RecordAfterRaise(wfor.task, exc))]
    /\ UNCHANGED <<main, batches, flatten_frame, scrape_frame, relativity_frame>>

\* scrape_flight raises before the deadline has fired
ScrapeFlightRaises(exc) ==
    /\ wfor.pc \in {"attempt1", "attempt2"}
    /\ wfor' = [wfor EXCEPT !.pc = "returned",
                            !.captcha_event = EventAfterRaise(@, exc),
                            !.ended_by = IF exc = "captcha" THEN "captcha" ELSE "exception",
                            !.ended_in = wfor.pc,
                            !.record = Some(RecordAfterRaise(wfor.task, exc))]
    /\ UNCHANGED <<main, batches, flatten_frame, scrape_frame, relativity_frame>>

\* except asyncio.TimeoutError: _scrape_task is cancelled where it stands and
\* the timeout record is returned
DeadlineFires ==
    /\ WaitForInFlight
    /\ DeadlineReached(wfor)
    /\ wfor' = [wfor EXCEPT !.pc = "returned",
                            !.ended_by = "deadline",
                            !.ended_in = wfor.pc,
                            !.record = Some(timeout_result(wfor.task, wfor.task_timeout))]
    /\ UNCHANGED <<main, batches, flatten_frame, scrape_frame, relativity_frame>>

NextBudget ==
    \/ EnterWaitFor
    \/ Tick
    \/ \E kind \in ReturnKinds : ScrapeFlightReturns(kind)
    \/ RetryDelayOver
    \/ \E exc \in RaiseKinds : ScrapeFlightRaises(exc)
    \/ DeadlineFires

SpecBudget == InitBudget /\ [][NextBudget]_vars

\* C34: the time a task has spent inside wait_for (first attempt, retry delay
\* and second attempt added up) never exceeds task_timeout; a task ended by
\* the deadline, in whichever of the three phases, ended exactly at
\* task_timeout with the timeout record, and a first result obtained before
\* is not what the record was made from.
C34_OneBudget ==
    /\ wfor.elapsed <= wfor.task_timeout
    /\ (WaitForInFlight /\ wfor.elapsed = wfor.task_timeout) => ENABLED DeadlineFires
    /\ (wfor.pc = "returned" /\ wfor.ended_by = "deadline") =>
           /\ wfor.elapsed = wfor.task_timeout
           /\ wfor.record = Some(timeout_result(wfor.task, wfor.task_timeout))
           /\ HasStatus(wfor.record[1], "Error: Task timed out after "
                                            \o ToString(wfor.task_timeout) \o "s")
           /\ wfor.ended_in \in {"retry_sleep", "attempt2"} =>
                  /\ wfor.result # None
                  /\ wfor.record[1] # _flatten_result(wfor.result[1])
                  /\ Get(wfor.record[1], "status") # wfor.result[1].status

\* an 8 second budget used up by a first attempt of 1 second, a retry delay
\* of 4 and a second attempt cut off after 3
C34_Witness ==
    /\ wfor.pc = "returned"
    /\ wfor.task_timeout = 8
    /\ wfor.ended_by = "deadline"
    /\ wfor.ended_in = "attempt2"
    /\ wfor.attempt_started = 5
    /\ wfor.elapsed = 8
    /\ HasStatus(wfor.record[1], "Error: Task timed out after 8s")

\* the deadline caught the task in its retry delay
C34_CutOffInRetryDelay ==
    /\ wfor.pc = "returned"
    /\ wfor.ended_by = "deadline"
    /\ wfor.ended_in = "retry_sleep"
    /\ wfor.sleep_left > 0

\* C37: a task ended by a CaptchaDetectedError, of the first or of the second
\* scrape_flight call, has set the signal and has the record with status
\* 'Error: CAPTCHA detected'; after the second call that record is neither a
\* generic error record nor the flattened first result, and the signal is set
\* by nothing else.
C37_RetryCaptcha ==
    /\ (wfor.pc = "returned" /\ wfor.ended_by = "captcha") =>
           /\ wfor.captcha_event
           /\ wfor.record = Some(captcha_result(wfor.task))
           /\ HasStatus(wfor.record[1], "Error: CAPTCHA detected")
           /\ wfor.ended_in = "attempt2" =>
                  /\ wfor.result # None
                  /\ NeedsRetry(wfor.result[1])
                  /\ wfor.record[1] # _flatten_result(wfor.result[1])
                  /\ wfor.record[1] # generic_error_result(wfor.task, ExceptionMessage)
    /\ wfor.captcha_event => wfor.ended_by = "captcha"

\* 'Price not found' first, the retry delay, then the captcha on the retry
C37_Witness ==
    /\ wfor.pc = "returned"
    /\ wfor.ended_by = "captcha"
    /\ wfor.ended_in = "attempt2"
    /\ wfor.attempt_started >= 4
    /\ wfor.captcha_event
    /\ wfor.result # None
    /\ Contains(wfor.result[1].status[1], "Price not found")
    /\ HasStatus(wfor.record[1], "Error: CAPTCHA detected")

\* ------------------------------- the aggregation after a batch ended any way
\* How _run_tasks ends for one task: as in BatchOutcomes, or timed out, or
\* with a captcha, or cancelled behind a captcha.
AnyOutcomes ==
    BatchOutcomes \cup {[kind |-> "timeout"], [kind |-> "captcha"], [kind |-> "cancelled"]}

AnyOutcomeRecord(task, outcome) ==
    IF outcome.kind = "timeout" THEN timeout_result(task, task_timeout)
    ELSE IF outcome.kind = "captcha" THEN captcha_result(task)
    ELSE IF outcome.kind = "cancelled" THEN _captcha_cancelled_result(task)
    ELSE OutcomeRecord(task, outcome)

AnyOutcomeEvent(outcome) ==
    IF outcome.kind = "timeout" THEN "timed_out"
    ELSE IF outcome.kind = "captcha" THEN "raised_captcha"
    ELSE IF outcome.kind = "cancelled" THEN "none"
    ELSE OutcomeEvent(outcome)

\* _run_sequential: the tasks behind a captcha, and no others, are cancelled
SequentialOutcomes(n) ==
    {outcome \in [1..n -> AnyOutcomes] :
        \A i \in 1..n : outcome[i].kind = "cancelled"
                            <=> \E j \in 1..(i - 1) : outcome[j].kind = "captcha"}

AggregateSizes == {1, 2, 3}

\* scrape_multiple has built its task list and is about to await _run_tasks
InitAggregate ==
    /\ InitMultiple
    /\ output_path = None
    /\ \E n \in AggregateSizes :
          /\ arrival_codes = [i \in 1..n |-> MkTask(i).arrival_code]
          /\ arrival_countries = [i \in 1..n |-> MkTask(i).arrival_country]
          /\ start_dates = [i \in 1..n |-> MkTask(i).start_date]
          /\ end_dates = [i \in 1..n |-> MkTask(i).end_date]
          /\ seat_classes = [i \in 1..n |-> MkTask(i).seat_class]

\* results = await _run_tasks(tasks, ...): the sequential run taken as one
\* step, each task ending in one of AnyOutcomes
RunBatchAnyEnd ==
    /\ sm_pc = "shuffled"
    /\ \E outcome \in SequentialOutcomes(Len(tasks)) :
          LET hit == {i \in 1..Len(tasks) : outcome[i].kind = "captcha"}
          IN  /\ results' = [i \in 1..Len(tasks) |-> AnyOutcomeRecord(tasks[i], outcome[i])]
              /\ last_event' = [i \in 1..Len(tasks) |-> AnyOutcomeEvent(outcome[i])]
              /\ calls' = [i \in 1..Len(tasks) |->
                              IF outcome[i].kind = "transient_price" THEN 2
                              ELSE IF outcome[i].kind = "cancelled" THEN 0 ELSE 1]
              /\ captcha_event' = (hit # {})
              /\ sleep_count' = IF hit # {} THEN (CHOOSE i \in hit : TRUE) - 1
                                ELSE Len(tasks) - 1
    /\ output' = results'
    /\ pc' = [i \in 1..Len(tasks) |-> "done"]
    /\ seq_i' = Len(tasks) + 1
    /\ batch_pc' = "returned"
    /\ sm_pc' = "ran"
    /\ UNCHANGED <<arguments, tasks, semaphore, sleep_timer, overtaken, error, df, csv>>

NextAggregate ==
    \/ ValidateInputs
    \/ ShuffleAndBuild
    \/ RunBatchAnyEnd
    \/ Aggregate

SpecAggregate == InitAggregate /\ [][NextAggregate]_vars

\* the records _run_tasks returned that were built from the task alone
WithoutRelativityField == {i \in DOMAIN output : "price_relativity" \notin DOMAIN output[i]}

\* position k of the returned collection holds the record of task
\* df[k].index + 1 of the schedule
ScheduledAt(k) == df[k].index + 1

\* C38: in the collection scrape_multiple returns, the generic-Error,
\* TimedOut, Captcha and Cancelled records carry no price_relativity and
\* each stands after every record whose price_relativity is present; when no
\* record of the batch has the field, the collection is the batch in
\* scheduling order.
C38_ErrorsLast ==
    sm_pc = "returned" =>
        /\ \A i \in DOMAIN output :
               (last_event[i] \in {"raised_other", "timed_out", "raised_captcha"}
                    \/ HasStatus(output[i], CancelledStatus))
                   => i \in WithoutRelativityField
        /\ \A a \in DOMAIN df : \A b \in DOMAIN df :
               (ScheduledAt(a) \in WithoutRelativityField
                    /\ Get(output[ScheduledAt(b)], "price_relativity") # None)
                   => b < a
        /\ WithoutRelativityField = DOMAIN output =>
               /\ df = DataFrame(output)
               /\ \A k \in DOMAIN df : ScheduledAt(k) = k /\ df[k].row = output[k]

\* a timed-out task scheduled first, a priced one second, a generic error
\* third: the priced record is returned first
C38_Witness ==
    /\ sm_pc = "returned"
    /\ Len(output) = 3
    /\ last_event = <<"timed_out", "returned_ok", "raised_other">>
    /\ ScheduledAt(1) = 2
    /\ ScheduledAt(2) = 1
    /\ ScheduledAt(3) = 3

\* a batch of captcha and cancelled records only: returned as scheduled
C38_SortSkipped ==
    /\ sm_pc = "returned"
    /\ Len(output) = 3
    /\ WithoutRelativityField = {1, 2, 3}
    /\ last_event[1] = "raised_captcha"
    /\ HasStatus(df[3].row, CancelledStatus)
    /\ "price_relativity" \notin FrameColumns(df)

\* C39: a call of _find_flight_with_retry searches at most max_retries
\* times and has slept once after every caught exception but the last allowed
\* one; it returns None on the first search that yields a flight that can be
\* clicked, 'No ... found.' on the first search that yields none, and after
\* max_retries exceptions 'Error finding {key}: ' followed by the message of
\* the last of them; no exception of the search leaves it.
C39_FindWithRetry ==
    LET f == sf.find
        n == Len(f.errors)
    IN  /\ f.calls <= max_retries
        /\ f.returned = <<>> => (f.calls = n /\ f.sleeps = n /\ n < max_retries)
        /\ (f.returned # <<>> /\ f.returned[1] = None) =>
               /\ f.calls = n + 1
               /\ f.sleeps = n
               /\ sf.result[f.key] = FlightDetails(f.key)
        /\ (f.returned # <<>> /\ f.returned[1] # None) =>
               \/ /\ f.returned[1] = Some("No " \o (IF f.key = "departure_flight"
                                                      THEN "departure" ELSE "return")
                                                \o " flight found.")
                  /\ f.calls = n + 1
                  /\ f.sleeps = n
               \/ /\ n = max_retries
                  /\ f.calls = max_retries
                  /\ f.sleeps = max_retries - 1
                  /\ f.returned[1] = Some("Error finding " \o f.key \o ": " \o f.errors[n])
        /\ (sf.pc \in {"departure_flight", "return_flight"} /\ sf.attempt > 0) =>
               (f.returned = <<>> /\ f.key = sf.pc /\ sf.raised = None)

\* two network errors, then a timeout on the third search for the return
\* flight: two sleeps, and the message of the timeout is returned
C39_Witness ==
    /\ sf.find.key = "return_flight"
    /\ sf.find.calls = 3
    /\ sf.find.sleeps = 2
    /\ sf.find.errors = <<"Network error", "Network error", "Timeout 30000ms exceeded.">>
    /\ sf.find.returned = <<Some("Error finding return_flight: Timeout 30000ms exceeded.")>>
    /\ sf.raised = None

\* the search for the departure flight yields none at the second attempt
C39_NoneAfterOneRetry ==
    /\ sf.find.key = "departure_flight"
    /\ sf.find.calls = 2
    /\ sf.find.sleeps = 1
    /\ sf.find.returned = <<Some("No departure flight found.")>>

====
